---- MODULE Spec2Model ----
(***************************************************************************)
(* A state-machine model of the agentic question-answering pipeline of     *)
(* engeybot: the conversation orchestrator (src/agentic/handler.py), the   *)
(* research engine's retry loop (src/agentic/researcher.py), the status    *)
(* manager's send/edit operations (src/agentic/status_manager.py) and the  *)
(* document store (src/agentic/mongo_store.py).                            *)
(*                                                                         *)
(* Python values are modelled as follows.                                  *)
(*   Optional[T]   a sequence: <<>> is None, <<v>> is the value v          *)
(*   Optional[int] message ids are >= 1, so 0 stands for None (both are    *)
(*                 falsy in Python)                                        *)
(*   str           short fixed strings are TLA+ strings; texts whose       *)
(*                 length or surrounding whitespace matters are sequences  *)
(*                 of runs [c |-> token, n |-> repetitions]                *)
(***************************************************************************)
EXTENDS Integers, Sequences, FiniteSets, TLC

(***************************************************************************)
(* Bounds of the model.                                                    *)
(***************************************************************************)
NumThreads == 2
NumChats == 1
MaxArrivals == 2
MaxRetriesBound == 2
MaxFaults == 1
MsgStride == 10

(***************************************************************************)
(* Program constants.                                                      *)
(***************************************************************************)
DEFAULT_MAX_RETRIES == 1
TELEGRAM_MAX_LENGTH == 4096
FALLBACK_EXCERPT_LEN == 500
AUTO_DELETE_DURATION == 86400

Threads == 1..NumThreads
Chats == 1..NumChats
\* every arrival creates at most one conversation
ConvIds == 1..(MaxArrivals + 1)

None == <<>>
Some(v) == <<v>>
IsSome(o) == Len(o) > 0
Get(o) == o[1]

Min(a, b) == IF a <= b THEN a ELSE b

(***************************************************************************)
(* Texts as sequences of runs.                                             *)
(***************************************************************************)
Lit(s) == IF s = "" THEN <<>> ELSE << [c |-> s, n |-> 1] >>
Rep(ch, k) == IF k = 0 THEN <<>> ELSE << [c |-> ch, n |-> k] >>
EmptyText == <<>>

RECURSIVE TLen(_)
TLen(t) == IF t = <<>> THEN 0 ELSE Len(t[1].c) * t[1].n + TLen(Tail(t))

IsSpaceRun(r) == r.c = " "

\* str.strip(): leading and trailing whitespace removed
RECURSIVE LStrip(_)
LStrip(t) == IF t = <<>> THEN <<>>
             ELSE IF IsSpaceRun(t[1]) THEN LStrip(Tail(t)) ELSE t

RECURSIVE RStrip(_)
RStrip(t) == IF t = <<>> THEN <<>>
             ELSE IF IsSpaceRun(t[Len(t)]) THEN RStrip(SubSeq(t, 1, Len(t) - 1)) ELSE t

Strip(t) == RStrip(LStrip(t))

\* text[:k]; a run of a multi-character token is cut only at token boundaries
\* when the token has one character, which is the case for every long text here
RECURSIVE Take(_, _)
Take(t, k) ==
    IF t = <<>> \/ k <= 0 THEN <<>>
    ELSE LET r == t[1]
             w == Len(r.c) * r.n
         IN IF w <= k THEN <<r>> \o Take(Tail(t), k - w)
            ELSE IF r.n = 1 THEN << [c |-> r.c, n |-> 1] >>
            ELSE IF k \div Len(r.c) = 0 THEN <<>>
            ELSE << [c |-> r.c, n |-> k \div Len(r.c)] >>

\* Python truthiness of a str
Truthy(t) == TLen(t) > 0

(***************************************************************************)
(* Research engine (src/agentic/researcher.py).                            *)
(***************************************************************************)
\* str(e) of the exceptions a backend or transport call raises; str(e) may be ""
Errors == {"", "timeout"}

\* URLs for which `"grounding-api-redirect" in url` is true
RedirectUrls == {"https://vertexaisearch.example/grounding-api-redirect/r1"}
RedirectStatusCodes == {301, 302, 303, 307, 308}

\* what the HEAD probe of a redirect URL can do
ProbeOutcomes ==
    { [kind |-> "error", code |-> 0, location |-> None],
      [kind |-> "status", code |-> 200, location |-> None],
      [kind |-> "status", code |-> 302, location |-> None],
      [kind |-> "status", code |-> 302, location |-> Some("https://a.example/1")] }
Probes == [RedirectUrls -> ProbeOutcomes]

\* a resolution that gives the citation up when the probe does not yield a
\* destination
ResolveOrDrop(url, probe) ==
    IF url = "" \/ url \notin RedirectUrls THEN url
    ELSE LET r == probe[url]
         IN IF r.kind = "status" /\ r.code \in RedirectStatusCodes /\ IsSome(r.location)
            THEN Get(r.location)
            ELSE ""

\* the HEAD requests one _resolve_redirect_url call makes
ResolveRequests(url) == IF url = "" \/ url \notin RedirectUrls THEN <<>> ELSE << url >>

ResolveRedirectUrl(url, probe) ==
    IF url = "" \/ url \notin RedirectUrls THEN url
    ELSE LET r == probe[url]
         IN IF r.kind = "status" /\ r.code \in RedirectStatusCodes
            THEN (IF IsSome(r.location) THEN Get(r.location) ELSE url)
            ELSE url

\* a grounding chunk: web present or not, title and uri possibly None
Chunk(title, uri) == [web |-> TRUE, title |-> title, uri |-> uri]
NoWebChunk == [web |-> FALSE, title |-> None, uri |-> None]

SourceInfo(title, url) == [title |-> title, url |-> url]

\* an extraction that keys the seen set on the URL as the provider gave it
RECURSIVE ExtractFromRawKey(_, _, _, _)
ExtractFromRawKey(chunks, probe, seen, sources) ==
    IF chunks = <<>> THEN sources
    ELSE LET ch == chunks[1]
             title == IF IsSome(ch.title) /\ Get(ch.title) # "" THEN Get(ch.title) ELSE "Source"
             raw_url == IF IsSome(ch.uri) THEN Get(ch.uri) ELSE ""
             url == ResolveRedirectUrl(raw_url, probe)
         IN IF ch.web /\ url # "" /\ raw_url \notin seen
            THEN ExtractFromRawKey(Tail(chunks), probe, seen \cup {raw_url},
                                   Append(sources, SourceInfo(title, url)))
            ELSE ExtractFromRawKey(Tail(chunks), probe, seen, sources)

RECURSIVE ExtractFrom(_, _, _, _)
ExtractFrom(chunks, probe, seen, sources) ==
    IF chunks = <<>> THEN sources
    ELSE LET ch == chunks[1]
             title == IF IsSome(ch.title) /\ Get(ch.title) # "" THEN Get(ch.title) ELSE "Source"
             raw_url == IF IsSome(ch.uri) THEN Get(ch.uri) ELSE ""
             url == ResolveRedirectUrl(raw_url, probe)
         IN IF ch.web /\ url # "" /\ url \notin seen
            THEN ExtractFrom(Tail(chunks), probe, seen \cup {url},
                             Append(sources, SourceInfo(title, url)))
            ELSE ExtractFrom(Tail(chunks), probe, seen, sources)

\* response.candidates[0].grounding_metadata.grounding_chunks -> [SourceInfo]
ExtractSources(response, probe) ==
    IF ~response.has_metadata THEN <<>>
    ELSE ExtractFrom(response.chunks, probe, {}, <<>>)

ResearchResult(id, text, sources, success, err) ==
    [sub_query_id |-> id, response_text |-> text, sources |-> sources,
     success |-> success, error_message |-> err]

\* response.text.strip() if response.text else ""
ResponseText(response) ==
    IF IsSome(response.text) /\ Truthy(Get(response.text))
    THEN Strip(Get(response.text)) ELSE EmptyText

SuccessResult(id, response, probe) ==
    ResearchResult(id, ResponseText(response), ExtractSources(response, probe), TRUE, None)

OptStr(o) == IF IsSome(o) THEN Get(o) ELSE "None"

\* a failure result that passes the last error on as it is, without the
\* "Research failed after ..." message around it
FailureResultBare(id, max_retries, last_error) ==
    ResearchResult(id, EmptyText, <<>>, FALSE, last_error)

FailureResult(id, max_retries, last_error) ==
    ResearchResult(id, EmptyText, <<>>, FALSE,
        Some("Research failed after " \o ToString(max_retries + 1)
             \o " attempts: " \o OptStr(last_error)))

\* the loop variables of research_query / research_single; calls counts the
\* generate_content calls made (a history variable); result is set on return
\* a loop that allows one attempt more than it was asked for
LoopStartOneMore(id, max_retries) ==
    [id |-> id, max_retries |-> max_retries + 1, attempts |-> 0, last_error |-> None,
     calls |-> 0,
     result |-> IF 0 <= max_retries + 1 THEN None
                ELSE Some(FailureResult(id, max_retries + 1, None))]

LoopStart(id, max_retries) ==
    [id |-> id, max_retries |-> max_retries, attempts |-> 0, last_error |-> None,
     calls |-> 0,
     result |-> IF 0 <= max_retries THEN None
                ELSE Some(FailureResult(id, max_retries, None))]

LoopRunning(s) == ~IsSome(s.result) /\ s.attempts <= s.max_retries

\* one iteration of `while attempts <= max_retries`; outcome is what the
\* generate_content call does
LoopIteration(s, outcome, probe) ==
    IF outcome.kind = "ok"
    THEN [s EXCEPT !.calls = @ + 1,
                   !.result = Some(SuccessResult(s.id, outcome, probe))]
    ELSE LET a == s.attempts + 1
             e == Some(outcome.err)
         IN [s EXCEPT !.calls = @ + 1, !.attempts = a, !.last_error = e,
                      !.result = IF a <= s.max_retries THEN None
                                 ELSE Some(FailureResult(s.id, s.max_retries, e))]

\* the responses of the search backend
BackendTexts ==
    { None, Some(EmptyText), Some(Rep(" ", 2)), Some(Rep("a", 3)),
      Some(Rep(" ", 1) \o Rep("a", 600) \o Rep(" ", 1)) }
BackendChunkLists ==
    { <<>>,
      << Chunk(Some("A"), Some("https://a.example/1")),
         Chunk(None, Some("https://vertexaisearch.example/grounding-api-redirect/r1")),
         NoWebChunk,
         Chunk(Some("B"), Some("https://b.example/2")),
         Chunk(Some("A2"), Some("https://a.example/1")),
         Chunk(Some("E"), None) >> }
SearchOutcomes ==
    { [kind |-> "raise", err |-> e, text |-> None, has_metadata |-> FALSE, chunks |-> <<>>]
        : e \in Errors }
    \cup
    { [kind |-> "ok", err |-> "", text |-> t, has_metadata |-> m, chunks |-> c]
        : t \in BackendTexts, m \in BOOLEAN, c \in BackendChunkLists }

(***************************************************************************)
(* Data model (src/agentic/models.py, src/agentic/decomposer.py).          *)
(***************************************************************************)
Stages == {"THINKING", "AWAITING_CLARIFICATION", "DECOMPOSING", "RESEARCHING",
           "SYNTHESIZING", "COMPLETE", "FAILED"}

\* ProcessingStage.X.value
StageValue(s) ==
    CASE s = "THINKING" -> "thinking"
      [] s = "AWAITING_CLARIFICATION" -> "awaiting_clarification"
      [] s = "DECOMPOSING" -> "decomposing"
      [] s = "RESEARCHING" -> "researching"
      [] s = "SYNTHESIZING" -> "synthesizing"
      [] s = "COMPLETE" -> "complete"
      [] s = "FAILED" -> "failed"

\* ProcessingStage(value)
StageOf(v) == CHOOSE s \in Stages : StageValue(s) = v

\* datetime.utcnow(), as an opaque timestamp
Now == "utcnow"

ConversationState(id, user_id, chat_id, message_id, question) ==
    [id |-> id, user_id |-> user_id, chat_id |-> chat_id, message_id |-> message_id,
     status_message_id |-> 0, original_question |-> question,
     clarification_context |-> <<>>, pending_clarification |-> None,
     pending_options |-> <<>>, stage |-> "THINKING", sub_queries |-> <<>>,
     research_results |-> <<>>, final_response |-> None, created_at |-> Now,
     completed_at |-> None, error_message |-> None]

SynthesizedResponse(text, sources, sections) ==
    [response_text |-> text, sources |-> sources, sections |-> sections,
     follow_up_questions |-> <<>>]

ClarificationOption(label, value) == [label |-> label, value |-> value]

ClarificationResult(needs, question, options) ==
    [needs_clarification |-> needs, clarification_question |-> question,
     options |-> options]

(***************************************************************************)
(* Document store (src/agentic/mongo_store.py): conversation id -> document *)
(***************************************************************************)
\* datetime.isoformat(): the timestamp as ISO 8601 text, and its parse
IsoFormat(d) == [iso |-> d]
FromIso(x) == x.iso

\* ConversationState.model_construct(**doc): no field is converted
ModelConstruct(doc) == doc

\* state.model_dump(mode="json"): enum -> its value, datetime -> ISO text
ModelDump(state) ==
    [state EXCEPT !.stage = StageValue(@),
                  !.created_at = IsoFormat(@),
                  !.completed_at = IF IsSome(@) THEN Some(IsoFormat(Get(@))) ELSE None]
\* ConversationState.model_validate(doc): value -> enum, ISO text -> datetime
ModelValidate(doc) ==
    [doc EXCEPT !.stage = StageOf(@),
                !.created_at = FromIso(@),
                !.completed_at = IF IsSome(@) THEN Some(FromIso(Get(@))) ELSE None]

\* replace_one({"id": id}, ...): the document is rebuilt from the updates,
\* every field they do not name falls back to its default
ReplaceFields(doc, updates) ==
    LET fresh == ModelDump(ConversationState(doc.id, doc.user_id, doc.chat_id,
                                             doc.message_id, doc.original_question))
    IN [f \in DOMAIN doc |-> IF f \in DOMAIN updates THEN updates[f] ELSE fresh[f]]

\* update_one({"id": id}, {"$set": updates}) on one document
SetFields(doc, updates) ==
    [f \in DOMAIN doc |-> IF f \in DOMAIN updates THEN updates[f] ELSE doc[f]]

\* create_conversation: insert_one(doc)
CreateConversation(st, state) == [st EXCEPT ![state.id] = Some(ModelDump(state))]

\* update_conversation: a no-op when no document matches the id
UpdateConversation(st, id, updates) ==
    IF IsSome(st[id]) THEN [st EXCEPT ![id] = Some(SetFields(Get(@), updates))] ELSE st

\* get_conversation: None when find_one finds nothing
GetConversation(st, id) ==
    IF IsSome(st[id]) THEN Some(ModelValidate(Get(st[id]))) ELSE None

(***************************************************************************)
(* Text helpers of the orchestrator.                                       *)
(***************************************************************************)
RECURSIVE JoinWith(_, _)
JoinWith(sep, texts) ==
    IF texts = <<>> THEN <<>>
    ELSE IF Len(texts) = 1 THEN texts[1]
    ELSE texts[1] \o sep \o JoinWith(sep, Tail(texts))

DigitChars == {"0", "1", "2", "3", "4", "5", "6", "7", "8", "9"}
DigitValue(ch) ==
    CASE ch = "0" -> 0 [] ch = "1" -> 1 [] ch = "2" -> 2 [] ch = "3" -> 3
      [] ch = "4" -> 4 [] ch = "5" -> 5 [] ch = "6" -> 6 [] ch = "7" -> 7
      [] ch = "8" -> 8 [] ch = "9" -> 9

\* characters for which str.isdigit() is true and that int() rejects:
\* superscript digits (and other non-decimal digit characters)
NonDecimalDigitChars == {"²", "³"}

\* str.isdigit(): non-empty and every character a digit
IsDigit(t) ==
    t # <<>> /\ \A i \in 1..Len(t) : t[i].c \in DigitChars \cup NonDecimalDigitChars

\* whether int(s) of a string that passed isdigit() returns; it raises
\* ValueError on a digit character that is not a decimal digit
IntParses(t) == \A i \in 1..Len(t) : t[i].c \in DigitChars

RECURSIVE RepDigit(_, _, _)
RepDigit(acc, d, k) == IF k = 0 THEN acc ELSE RepDigit(acc * 10 + d, d, k - 1)

RECURSIVE IntFrom(_, _)
IntFrom(acc, t) ==
    IF t = <<>> THEN acc
    ELSE IntFrom(RepDigit(acc, DigitValue(t[1].c), t[1].n), Tail(t))

\* int(s) of a digit string
IntOf(t) == IntFrom(0, t)

\* f"{x}" of an Optional[str] held as a text
FormatOpt(o) == IF IsSome(o) THEN Get(o) ELSE Lit("None")

\* lines 272-276 of _handle_clarification_response
ActualResponse(state, response) ==
    IF state.pending_options # <<>> /\ IsDigit(Strip(response))
    THEN LET option_num == IntOf(Strip(response))
         IN IF 1 <= option_num /\ option_num <= Len(state.pending_options)
            THEN Lit(state.pending_options[option_num])
            ELSE response
    ELSE response

\* whether lines 272-273 raise ValueError
ReplyRaises(state, response) ==
    /\ state.pending_options # <<>>
    /\ IsDigit(Strip(response))
    /\ ~IntParses(Strip(response))

\* f"Q: {state.pending_clarification}\nA: {actual_response}"
ClarificationQA(state, actual_response) ==
    Lit("Q: ") \o FormatOpt(state.pending_clarification) \o Lit("\nA: ") \o actual_response

\* a reply handler that keeps only the latest answer
RecordAnswerOnly(state, response) ==
    [state EXCEPT
        !.clarification_context =
            << ClarificationQA(state, ActualResponse(state, response)) >>,
        !.pending_clarification = None,
        !.pending_options = <<>>]

\* lines 271-282 of _handle_clarification_response, when they do not raise
RecordAnswer(state, response) ==
    [state EXCEPT
        !.clarification_context =
            Append(@, ClarificationQA(state, ActualResponse(state, response))),
        !.pending_clarification = None,
        !.pending_options = <<>>]

\* lines 132-134 of _do_research
FullQuestion(state) ==
    IF state.clarification_context # <<>>
    THEN state.original_question \o Lit("\n\nContext:\n")
         \o JoinWith(Lit("\n"), state.clarification_context)
    ELSE state.original_question

RECURSIVE NumberedOptions(_, _)
NumberedOptions(options, i) ==
    IF i > Len(options) THEN <<>>
    ELSE Lit(ToString(i) \o ". " \o options[i].label \o "\n")
         \o NumberedOptions(options, i + 1)

\* lines 225-229 of _ask_clarification
ClarificationMessage(cr) ==
    Get(cr.clarification_question)
    \o (IF cr.options # <<>> THEN Lit("\n\n") \o NumberedOptions(cr.options, 1) ELSE <<>>)

\* SourceInfo.to_html
ToHtml(source) == Lit("<a href=\"" \o source.url \o "\">" \o source.title \o "</a>")

\* a rendering that puts the hyperlinks on lines of their own
FormatSourcesLines(sources) ==
    IF sources = <<>> THEN <<>>
    ELSE JoinWith(Lit("\n"), [i \in 1..Len(sources) |-> ToHtml(sources[i])])

\* format_sources_html
FormatSourcesHtml(sources) ==
    IF sources = <<>> THEN <<>>
    ELSE JoinWith(Lit(" | "), [i \in 1..Len(sources) |-> ToHtml(sources[i])])

SourcesText(response) ==
    IF response.sources # <<>>
    THEN Lit("Sources: ") \o FormatSourcesHtml(response.sources) ELSE <<>>

\* the notice of _handle_failure; its leading cross mark is written (x)
ErrorNotice(error_message) ==
    Lit("(x) Sorry, I encountered an error: ") \o Lit(error_message)

\* the Dhivehi text of line 179, "no result was received"
FallbackPlaceholder == Lit("no result was received")

\* a fallback that passes the whole research text on
FallbackResponseWhole(research_result) ==
    SynthesizedResponse(
        IF Truthy(research_result.response_text)
        THEN research_result.response_text
        ELSE FallbackPlaceholder,
        research_result.sources, <<>>)

\* the except branch of step 4 of _do_research
FallbackResponse(research_result) ==
    SynthesizedResponse(
        IF Truthy(research_result.response_text)
        THEN Take(research_result.response_text, FALLBACK_EXCERPT_LEN)
        ELSE FallbackPlaceholder,
        research_result.sources, <<>>)

(***************************************************************************)
(* Status manager (src/agentic/status_manager.py).  Each operation is the  *)
(* set of its executions: the list of transport and scheduler calls it     *)
(* makes, each ok or failed.  An operation raises exactly when the last    *)
(* call it made failed and the failure is not swallowed.                   *)
(***************************************************************************)
Ev(op, ok, chat, id, text, reply_to, parse_mode, delay) ==
    [op |-> op, ok |-> ok, chat |-> chat, id |-> id, text |-> text,
     reply_to |-> reply_to, parse_mode |-> parse_mode, delay |-> delay]

SendEv(ok, chat, id, text, reply_to, parse_mode) ==
    Ev("send", ok, chat, IF ok THEN id ELSE 0, text, reply_to, parse_mode, 0)
EditEv(ok, chat, id, text, parse_mode) == Ev("edit", ok, chat, id, text, 0, parse_mode, 0)
DeleteEv(ok, chat, id) == Ev("delete", ok, chat, id, <<>>, 0, "", 0)
ScheduleEv(ok, chat, id) == Ev("schedule", ok, chat, id, <<>>, 0, "", AUTO_DELETE_DURATION)

\* _schedule_deletion: nothing when no scheduler is configured
ScheduleDeletion(hueyOn, chat, id) ==
    IF hueyOn THEN { << ScheduleEv(ok, chat, id) >> : ok \in BOOLEAN } ELSE { <<>> }

Raised(evs) == evs # <<>> /\ ~evs[Len(evs)].ok

\* STAGE_MESSAGES[stage]: one Dhivehi text per stage, written by its stage
StageMessage(stage) == Lit("status: " \o StageValue(stage))

\* bot.send_message
SendMessage(chat, text, reply_to, parse_mode, newId) ==
    { << SendEv(ok, chat, newId, text, reply_to, parse_mode) >> : ok \in BOOLEAN }

\* send_with_auto_delete
SendWithAutoDelete(hueyOn, chat, text, reply_to, parse_mode, newId) ==
    { << SendEv(FALSE, chat, newId, text, reply_to, parse_mode) >> }
    \cup
    { << SendEv(TRUE, chat, newId, text, reply_to, parse_mode) >> \o s :
        s \in ScheduleDeletion(hueyOn, chat, newId) }

\* send_initial_status
SendInitialStatus(hueyOn, chat, reply_to, newId) ==
    SendWithAutoDelete(hueyOn, chat, StageMessage("THINKING"), reply_to, "", newId)

\* an update that renews the deletion timer of the message it edits
UpdateStatusRenewing(chat, id, stage) ==
    { << EditEv(ok, chat, id, StageMessage(stage), ""), ScheduleEv(TRUE, chat, id) >>
        : ok \in BOOLEAN }

\* update_status: the edit's failure is swallowed
UpdateStatus(chat, id, stage) ==
    { << EditEv(ok, chat, id, StageMessage(stage), "") >> : ok \in BOOLEAN }

\* a replacement that gives up when the edit fails
ReplaceWithResponseNoFallback(hueyOn, chat, id, text, parse_mode, newId) ==
    { << EditEv(ok, chat, id, text, parse_mode) >> : ok \in BOOLEAN }

\* replace_with_response
ReplaceWithResponse(hueyOn, chat, id, text, parse_mode, newId) ==
    { << EditEv(TRUE, chat, id, text, parse_mode) >> }
    \cup
    { << EditEv(FALSE, chat, id, text, parse_mode) >> \o s :
        s \in SendWithAutoDelete(hueyOn, chat, text, 0, parse_mode, newId) }

RECURSIVE FailCount(_)
FailCount(evs) ==
    IF evs = <<>> THEN 0
    ELSE (IF evs[1].ok THEN 0 ELSE 1) + FailCount(Tail(evs))

RECURSIVE SentCount(_)
SentCount(evs) ==
    IF evs = <<>> THEN 0
    ELSE (IF evs[1].op = "send" /\ evs[1].ok THEN 1 ELSE 0) + SentCount(Tail(evs))

(***************************************************************************)
(* State.                                                                  *)
(*   th         per worker thread: the position (pc) and the local         *)
(*              variables of the handle() invocation it runs, the calls    *)
(*              the invocation made to the transport and scheduler (out)   *)
(*              and to the store (db)                                      *)
(*   pending    _pending_clarifications: chat -> conversation id; the      *)
(*              other fields are history: slot, the arrival number of the  *)
(*              invocation that wrote the entry; orig, the question the    *)
(*              conversation began with; rounds, its earlier clarification *)
(*              rounds; cr, what the resolver asked in this round          *)
(*   store      the conversations collection                               *)
(*   nextConv   the next fresh conversation id (uuid4)                     *)
(*   arrivals   the messages received so far                               *)
(*   faults     the transport, scheduler and store calls that failed       *)
(*   huey       whether a scheduler was passed to the handler              *)
(*   concurrent whether the dispatcher runs handlers on several threads    *)
(*   limits     what a run explores: how many transport, scheduler and     *)
(*              store calls fail, how many messages arrive, whether the    *)
(*              model backends (resolver, search, synthesis) can fail      *)
(*   cleared    history: the pending entries removed so far, by slot       *)
(*   re         the research engine called on its own: the function, its   *)
(*              retry loop or, for research_all, its pool and counters     *)
(*   call       a method of the orchestrator called on its own: its name,  *)
(*              its arguments and, once it returned or raised, its outcome *)
(***************************************************************************)
VARIABLES th, pending, store, nextConv, arrivals, faults, huey, concurrent, limits, cleared,
          re, call

vars == <<th, pending, store, nextConv, arrivals, faults, huey, concurrent, limits, cleared, re, call>>

Users == {1}
Slots == 1..(MaxArrivals + 1)

\* the texts of inbound messages
MessageTexts == { Lit("mercury"), Lit("2") }

ClarOptions == << ClarificationOption("planet", "Mercury (planet)"),
                  ClarificationOption("element", "Mercury (element)") >>

\* what check_clarification_needed can do: raise (transport or validation
\* error) or return a ClarificationResult
ResolverOutcomes ==
    { [kind |-> "raise", result |-> ClarificationResult(FALSE, None, <<>>)] }
    \cup
    { [kind |-> "ok", result |-> r] :
        r \in { ClarificationResult(FALSE, None, <<>>),
                ClarificationResult(TRUE, Some(Lit("which one?")), ClarOptions),
                ClarificationResult(TRUE, Some(Lit("when?")), <<>>),
                ClarificationResult(TRUE, None, <<>>),
                ClarificationResult(TRUE, Some(EmptyText), ClarOptions) } }

\* str(e) of the exceptions raised in a handle() invocation
HandlerErrors == {"timeout"}

\* what the search backend does in a handle() invocation
HandlerSearchOutcomes ==
    { o \in SearchOutcomes :
        \/ o.kind = "raise" /\ o.err = "timeout"
        \/ o.kind = "ok" /\ o.text = None /\ ~o.has_metadata /\ o.chunks = <<>>
        \/ o.kind = "ok" /\ o.text = Some(Rep(" ", 1) \o Rep("a", 600) \o Rep(" ", 1))
             /\ o.has_metadata /\ o.chunks # <<>> }
HandlerProbes ==
    { p \in Probes : \A u \in RedirectUrls : p[u].kind = "status" /\ p[u].code = 302
                                             /\ IsSome(p[u].location) }

\* what summarize can do: raise or return the model's text and sections
SynthOutcomes ==
    { [kind |-> "raise", err |-> e, text |-> <<>>, sections |-> <<>>] : e \in HandlerErrors }
    \cup
    { [kind |-> "ok", err |-> "", text |-> Lit("answer"), sections |-> <<"Overview">>],
      [kind |-> "ok", err |-> "", text |-> EmptyText, sections |-> <<>>] }

\* an answer of two lines that together exceed Telegram's message limit
LongLine == 3000
LongAnswer == Rep("a", LongLine) \o Lit("\n") \o Rep("b", LongLine)
LongSynthOutcome ==
    [kind |-> "ok", err |-> "", text |-> LongAnswer, sections |-> <<"Overview">>]

IdleThread ==
    [pc |-> "idle", arr |-> 0, k |-> 0, chat |-> 0, user |-> 0, mid |-> 0, text |-> <<>>,
     conv |-> 0, slot |-> 0, route |-> "", st |-> None, sid |-> 0, cr |-> None,
     loop |-> None, rr |-> None, fq |-> <<>>, fr |-> None, fail |-> "", exc |-> "",
     out |-> <<>>, db |-> <<>>, asked |-> FALSE, nResolver |-> 0, nSynth |-> 0,
     synFailed |-> FALSE, seen |-> {}, resolverRaised |-> FALSE,
     orig |-> <<>>, rounds |-> <<>>, unasked |-> FALSE]

InitEngine == [fn |-> "", loop |-> None]
NoCall == [fn |-> "", args |-> <<>>, out |-> None]

InitHandler ==
    /\ th = [t \in Threads |-> IdleThread]
    /\ pending = [c \in Chats |-> None]
    /\ store = [i \in ConvIds |-> None]
    /\ nextConv = 1
    /\ arrivals = 0
    /\ faults = 0
    /\ cleared = {}

Limits(f, a, failing) == [faults |-> f, arrivals |-> a, failing |-> failing]

Init ==
    /\ InitHandler /\ huey \in BOOLEAN /\ concurrent = FALSE /\ re = InitEngine /\ call = NoCall
    /\ limits = Limits(MaxFaults, MaxArrivals, TRUE)

\* two replies can follow one question; every call succeeds
InitConc ==
    /\ InitHandler /\ huey = TRUE /\ concurrent = TRUE /\ re = InitEngine /\ call = NoCall
    /\ limits = Limits(0, MaxArrivals + 1, FALSE)

\* a question, its reply and one more message, one at a time
InitReplies ==
    /\ InitHandler /\ huey \in BOOLEAN /\ concurrent = FALSE /\ re = InitEngine /\ call = NoCall
    /\ limits = Limits(MaxFaults, MaxArrivals + 1, FALSE)

\* a question, its reply and one more message; the model writes long answers
InitLong ==
    /\ InitHandler /\ huey \in BOOLEAN /\ concurrent = FALSE /\ re = InitEngine /\ call = NoCall
    /\ limits = [faults |-> MaxFaults, arrivals |-> MaxArrivals + 1, failing |-> FALSE,
                 long |-> TRUE]

FaultBudget == limits.faults
ArrivalLimit == limits.arrivals

\* `needs_clarification and clarification_question`
\* history: the resolver said a clarification is needed and gave no question
NoQuestion(cr) ==
    /\ cr.needs_clarification
    /\ \/ cr.clarification_question = None
       \/ Get(cr.clarification_question) = EmptyText

\* a test that looks at needs_clarification alone
WantsClarificationAnyway(cr) == cr.needs_clarification

WantsClarification(cr) ==
    cr.needs_clarification /\ IsSome(cr.clarification_question)
    /\ Truthy(Get(cr.clarification_question))

\* when the backends cannot fail they are explored on their good outcomes
\* only: the resolver answers, the search and the synthesis succeed
TextChoices == IF limits.failing THEN MessageTexts ELSE { Lit("2") }
ResolverChoices ==
    IF limits.failing
    THEN ResolverOutcomes
    ELSE { o \in ResolverOutcomes :
             /\ o.kind = "ok"
             /\ o.result.needs_clarification => o.result.options # <<>>
             /\ o.result.needs_clarification => WantsClarification(o.result) }
SearchChoices ==
    IF limits.failing
    THEN HandlerSearchOutcomes
    ELSE { o \in HandlerSearchOutcomes : o.kind = "ok" /\ IsSome(o.text) }
SynthChoices ==
    IF "long" \in DOMAIN limits
    THEN { LongSynthOutcome }
    ELSE IF limits.failing
    THEN SynthOutcomes
    ELSE { o \in SynthOutcomes : o.kind = "ok" /\ Truthy(o.text) }

\* the id Telegram gives the next message this invocation sends
NewId(me) == me.arr * MsgStride + me.k + 1

Resting(me) == me.pc \in {"idle", "done"}

\* one step of thread t: its record, the shared map and the store change,
\* nf calls failed
Step(t, me, newPending, newStore, nf) ==
    /\ faults + nf <= FaultBudget
    /\ faults' = faults + nf
    /\ th' = [th EXCEPT ![t] = me]
    /\ pending' = newPending
    /\ store' = newStore
    /\ UNCHANGED <<nextConv, arrivals, huey, concurrent, limits, cleared, re, call>>

Local(t, me, nf) == Step(t, me, pending, store, nf)

\* whether a store call works; it can fail while failures remain
StoreOutcomes == IF faults < FaultBudget THEN BOOLEAN ELSE {TRUE}

\* the executions that the remaining failures allow
Allowed(runs) == { evs \in runs : faults + FailCount(evs) <= FaultBudget }

DbEv(op, ok, id, fields) == [op |-> op, ok |-> ok, id |-> id, fields |-> fields]

\* _persist_update: the store's exception is swallowed
PersistUpdate(t, me, updates, ok, nextPc) ==
    Step(t, [me EXCEPT !.pc = nextPc,
                       !.db = Append(@, DbEv("update", ok, me.conv, updates))],
         pending,
         IF ok THEN UpdateConversation(store, me.conv, updates) ELSE store,
         IF ok THEN 0 ELSE 1)

WithOut(me, evs) == [me EXCEPT !.out = @ \o evs, !.k = @ + SentCount(evs)]

(***************************************************************************)
(* handle(), lines 71-80: a message arrives and is routed.                 *)
(***************************************************************************)
Arrive(t) ==
    /\ Resting(th[t])
    /\ concurrent \/ t = 1
    /\ arrivals < ArrivalLimit
    /\ \E chat \in Chats, user \in Users, text \in TextChoices :
         th' = [th EXCEPT ![t] =
                  [IdleThread EXCEPT !.pc = "check", !.arr = arrivals + 1, !.chat = chat,
                                     !.user = user, !.mid = (arrivals + 1) * MsgStride,
                                     !.text = text, !.seen = cleared]]
    /\ arrivals' = arrivals + 1
    /\ UNCHANGED <<pending, store, nextConv, faults, huey, concurrent, limits, cleared, re, call>>

\* `if chat_id in _pending_clarifications` and, when it is not, lines 83-91
Check(t) ==
    LET me == th[t] IN
    /\ me.pc = "check"
    /\ IF IsSome(pending[me.chat])
       THEN /\ th' = [th EXCEPT ![t] = [me EXCEPT !.pc = "read", !.route = "clar"]]
            /\ UNCHANGED nextConv
       ELSE /\ th' = [th EXCEPT ![t] =
                        [me EXCEPT !.pc = "status", !.route = "new", !.conv = nextConv,
                                   !.orig = me.text,
                                   !.st = Some(ConversationState(nextConv, me.user, me.chat,
                                                                 me.mid, me.text))]]
            /\ nextConv' = nextConv + 1
    /\ UNCHANGED <<pending, store, arrivals, faults, huey, concurrent, limits, cleared, re, call>>

\* one clarification round as it took place: the question and the option
\* values put to the user, and the text the user replied with
Round(cr, text) ==
    [q |-> cr.clarification_question,
     opts |-> [i \in 1..Len(cr.options) |-> cr.options[i].value],
     text |-> text]

\* `conversation_id = _pending_clarifications[chat_id]`; the entry also
\* carries the history of the conversation it names (orig, rounds, cr), which
\* the code does not keep there
Read(t) ==
    LET me == th[t] IN
    /\ me.pc = "read"
    /\ IF IsSome(pending[me.chat])
       THEN th' = [th EXCEPT ![t] = [me EXCEPT !.pc = "clar_del",
                                               !.conv = Get(pending[me.chat]).conv,
                                               !.slot = Get(pending[me.chat]).slot,
                                               !.orig = Get(pending[me.chat]).orig,
                                               !.rounds =
                                                   Append(Get(pending[me.chat]).rounds,
                                                          Round(Get(pending[me.chat]).cr,
                                                                me.text))]]
       ELSE /\ th' = [th EXCEPT ![t] = [me EXCEPT !.pc = "done", !.exc = "KeyError"]]
    /\ UNCHANGED <<pending, store, nextConv, arrivals, faults, huey, concurrent, limits, cleared, re, call>>

(***************************************************************************)
(* handle(), lines 93-105: the new-question path.                          *)
(***************************************************************************)
SendStatus(t) ==
    LET me == th[t] IN
    /\ me.pc = "status"
    /\ \E evs \in Allowed(SendInitialStatus(huey, me.chat, me.mid, NewId(me))) :
         LET st == Get(me.st)
         IN Local(t,
                  IF Raised(evs)
                  THEN [WithOut(me, evs) EXCEPT
                          !.pc = "create", !.sid = 0,
                          !.st = Some([st EXCEPT !.error_message =
                                         Some("Failed to send status: telegram error")])]
                  ELSE [WithOut(me, evs) EXCEPT
                          !.pc = "create", !.sid = NewId(me),
                          !.st = Some([st EXCEPT !.status_message_id = NewId(me)])],
                  FailCount(evs))

CreateConv(t) ==
    LET me == th[t] IN
    /\ me.pc = "create"
    /\ \E ok \in StoreOutcomes :
         Step(t, [me EXCEPT !.pc = "resolver",
                            !.db = Append(@, DbEv("create", ok, me.conv, ModelDump(Get(me.st))))],
              pending,
              IF ok THEN CreateConversation(store, Get(me.st)) ELSE store,
              IF ok THEN 0 ELSE 1)

(***************************************************************************)
(* Step 2 of handle() (lines 107-116) and the re-check of                  *)
(* _handle_clarification_response (lines 298-309), with the local part of  *)
(* _ask_clarification (lines 207-216) when clarification is asked for.     *)
(***************************************************************************)
AskLocal(me, cr) ==
    LET st == Get(me.st) IN
    [me EXCEPT !.pc = "ask_persist", !.cr = Some(cr), !.asked = TRUE,
               !.nResolver = @ + 1, !.unasked = NoQuestion(cr),
               !.st = Some([st EXCEPT
                   !.stage = "AWAITING_CLARIFICATION",
                   !.pending_clarification = cr.clarification_question,
                   !.pending_options =
                       IF cr.options # <<>>
                       THEN [i \in 1..Len(cr.options) |-> cr.options[i].value]
                       ELSE @])]

\* a resolver whose failure ends the invocation
ResolverNextAbort(o) ==
    IF o.kind = "raise" THEN "done"
    ELSE IF WantsClarification(o.result) THEN "ask_persist" ELSE "rs_stage"

\* where the invocation goes after the resolver call: _ask_clarification
\* when it asks, _do_research when it does not or when it raised
ResolverNext(o) ==
    IF o.kind = "ok" /\ WantsClarification(o.result) THEN "ask_persist" ELSE "rs_stage"

Resolver(t) ==
    LET me == th[t] IN
    /\ me.pc = "resolver"
    /\ \E o \in ResolverChoices :
         IF ResolverNext(o) = "ask_persist"
         THEN Step(t, AskLocal(me, o.result),
                   [pending EXCEPT ![Get(me.st).chat_id] =
                       Some([conv |-> Get(me.st).id, slot |-> me.arr, orig |-> me.orig,
                             rounds |-> me.rounds, cr |-> o.result])],
                   store, 0)
         ELSE Local(t, [me EXCEPT !.pc = ResolverNext(o), !.nResolver = @ + 1,
                                  !.resolverRaised = (o.kind = "raise"),
                                  !.unasked = (o.kind = "ok" /\ NoQuestion(o.result))], 0)

\* _ask_clarification, lines 218-222
AskPersist(t) ==
    LET me == th[t]
        st == Get(me.st)
    IN /\ me.pc = "ask_persist"
       /\ \E ok \in StoreOutcomes :
            PersistUpdate(t, me,
                [stage |-> StageValue("AWAITING_CLARIFICATION"),
                 pending_clarification |-> st.pending_clarification,
                 pending_options |-> st.pending_options],
                ok, "ask_notify")

\* bot.delete_message, its failure swallowed
DeleteMessage(chat, id) == { << DeleteEv(ok, chat, id) >> : ok \in BOOLEAN }

\* the transport calls of _ask_clarification, lines 231-244
AskClarificationCalls(me) ==
    LET st == Get(me.st) IN
    { d \o s : d \in (IF me.sid # 0 THEN DeleteMessage(st.chat_id, me.sid) ELSE { <<>> }),
               s \in SendMessage(st.chat_id, ClarificationMessage(Get(me.cr)),
                                 st.message_id, "", NewId(me)) }

\* _ask_clarification, lines 231-244: delete the status message (failure
\* swallowed) and send the question; a failed send raises into the except
\* clause of the caller, which goes on to research
AskNotify(t) ==
    LET me == th[t]
        st == Get(me.st)
    IN /\ me.pc = "ask_notify"
       /\ \E evs \in Allowed(AskClarificationCalls(me)) :
            Local(t, [WithOut(me, evs) EXCEPT
                         !.pc = IF Raised(evs) THEN "rs_stage" ELSE "done"],
                  FailCount(evs))

(***************************************************************************)
(* _do_research, lines 128-154.                                            *)
(***************************************************************************)
\* a failure handler that records the error and leaves the stage as it is
FailLocalKeepStage(me, error_message) ==
    [me EXCEPT !.pc = "fail_persist", !.fail = error_message,
               !.st = Some([Get(me.st) EXCEPT !.error_message = Some(error_message)])]

\* _handle_failure, lines 377-378
FailLocal(me, error_message) ==
    [me EXCEPT !.pc = "fail_persist", !.fail = error_message,
               !.st = Some([Get(me.st) EXCEPT !.stage = "FAILED",
                                              !.error_message = Some(error_message)])]

\* the transport calls of _update_stage
UpdateStage(me, stage) ==
    IF me.sid # 0 THEN UpdateStatus(Get(me.st).chat_id, me.sid, stage) ELSE { <<>> }

\* lines 131-138: the full question, _update_stage(RESEARCHING)
ResearchStage(t) ==
    LET me == th[t]
        st == Get(me.st)
    IN /\ me.pc = "rs_stage"
       /\ \E evs \in Allowed(UpdateStage(me, "RESEARCHING")) :
               Local(t, [WithOut(me, evs) EXCEPT
                            !.pc = "search", !.fq = FullQuestion(st),
                            !.st = Some([st EXCEPT !.stage = "RESEARCHING"]),
                            !.loop = Some(LoopStart("main", DEFAULT_MAX_RETRIES))],
                     FailCount(evs))

\* line 140: research_single(full_question), one generate_content call per step
Search(t) ==
    LET me == th[t]
        lp == Get(me.loop)
    IN /\ me.pc = "search"
       /\ LoopRunning(lp)
       /\ \E o \in SearchChoices, probe \in HandlerProbes :
            LET nl == LoopIteration(lp, o, probe) IN
            Local(t,
                  IF IsSome(nl.result)
                  THEN [me EXCEPT !.pc = "rs_persist", !.loop = Some(nl), !.rr = nl.result,
                                  !.st = Some([Get(me.st) EXCEPT
                                                 !.research_results = << Get(nl.result) >>])]
                  ELSE [me EXCEPT !.loop = Some(nl)],
                  0)

\* the research step raising (the except clause of lines 152-154)
SearchRaises(t) ==
    LET me == th[t] IN
    /\ me.pc = "search"
    /\ Get(me.loop).calls = 0
    /\ limits.failing
    /\ \E e \in HandlerErrors : Local(t, FailLocal(me, "Research failed: " \o e), 0)

\* lines 143-150
ResearchPersist(t) ==
    LET me == th[t]
        rr == Get(me.rr)
    IN /\ me.pc = "rs_persist"
       /\ \E ok \in StoreOutcomes :
            PersistUpdate(t,
                IF rr.success THEN me ELSE FailLocal(me, "Research failed"),
                [research_results |-> << rr >>, stage |-> StageValue("RESEARCHING")],
                ok,
                IF rr.success THEN "synth" ELSE "fail_persist")

(***************************************************************************)
(* _handle_failure, lines 380-401.                                         *)
(***************************************************************************)
FailPersist(t) ==
    LET me == th[t] IN
    /\ me.pc = "fail_persist"
    /\ \E ok \in StoreOutcomes :
         PersistUpdate(t, me,
             [stage |-> StageValue("FAILED"), error_message |-> Some(me.fail)],
             ok, "fail_notify")

\* replace_with_response, then send_with_auto_delete when it raised
ReplaceOrSend(hueyOn, me, chat, text, reply_to) ==
    UNION { IF Raised(e1)
            THEN { e1 \o e2 : e2 \in SendWithAutoDelete(hueyOn, chat, text, reply_to, "",
                                                        NewId(WithOut(me, e1))) }
            ELSE { e1 }
            : e1 \in ReplaceWithResponse(hueyOn, chat, me.sid, text, "", NewId(me)) }

\* the transport calls of _handle_failure, lines 385-401
FailureCalls(hueyOn, me) ==
    IF me.sid # 0
    THEN ReplaceOrSend(hueyOn, me, Get(me.st).chat_id, ErrorNotice(me.fail),
                       Get(me.st).message_id)
    ELSE { <<>> }

FailNotify(t) ==
    LET me == th[t]
        st == Get(me.st)
    IN /\ me.pc = "fail_notify"
       /\ \E evs \in Allowed(FailureCalls(huey, me)) :
            Local(t, [WithOut(me, evs) EXCEPT !.pc = "done"], FailCount(evs))

(***************************************************************************)
(* _do_research, lines 156-192.                                            *)
(***************************************************************************)
\* lines 158-166 and, when summarize raises, lines 178-185
Synthesize(t) ==
    LET me == th[t]
        st == Get(me.st)
        rr == Get(me.rr)
    IN /\ me.pc = "synth"
       /\ \E evs \in Allowed(UpdateStage(me, "SYNTHESIZING")), syn \in SynthChoices :
            LET me1 == [WithOut(me, evs) EXCEPT !.nSynth = @ + 1]
                final == SynthesizedResponse(syn.text, rr.sources, syn.sections)
                fallback == FallbackResponse(rr)
            IN Local(t,
                  IF syn.kind = "ok"
                  THEN [me1 EXCEPT !.pc = "syn_persist", !.fr = Some(final),
                                   !.st = Some([st EXCEPT !.final_response = Some(final),
                                                          !.stage = "COMPLETE",
                                                          !.completed_at = Some(Now)])]
                  ELSE [me1 EXCEPT !.pc = "fb_persist", !.fr = Some(fallback),
                                   !.synFailed = TRUE,
                                   !.st = Some([st EXCEPT
                                       !.final_response = Some(fallback),
                                       !.stage = "SYNTHESIZING",
                                       !.error_message =
                                           Some("Synthesis failed: " \o syn.err)])],
                  FailCount(evs))

\* lines 168-172
SynthPersist(t) ==
    LET me == th[t]
        st == Get(me.st)
    IN /\ me.pc = "syn_persist"
       /\ \E ok \in StoreOutcomes :
            PersistUpdate(t, me,
                [final_response |-> me.fr, stage |-> StageValue("COMPLETE"),
                 completed_at |-> Some(IsoFormat(Get(st.completed_at)))],
                ok, "fin_main")

\* lines 186-190
FallbackPersist(t) ==
    LET me == th[t]
        st == Get(me.st)
    IN /\ me.pc = "fb_persist"
       /\ \E ok \in StoreOutcomes :
            PersistUpdate(t, me,
                [final_response |-> me.fr, stage |-> StageValue("COMPLETE"),
                 error_message |-> st.error_message],
                ok, "fin_main")

(***************************************************************************)
(* _send_final_response, lines 489-543.                                    *)
(***************************************************************************)
\* the transport calls of lines 499-531
FinalMainCalls(hueyOn, me) ==
    LET text == Get(me.fr).response_text
        chat == Get(me.st).chat_id
    IN IF me.sid # 0
       THEN ReplaceOrSend(hueyOn, me, chat, text, 0)
       ELSE SendWithAutoDelete(hueyOn, chat, text, 0, "", NewId(me))

SendFinalMain(t) ==
    LET me == th[t]
        st == Get(me.st)
        fr == Get(me.fr)
    IN /\ me.pc = "fin_main"
       /\ \E evs \in Allowed(FinalMainCalls(huey, me)) :
               Local(t, [WithOut(me, evs) EXCEPT
                            !.pc = IF Truthy(SourcesText(fr)) THEN "fin_sources" ELSE "done"],
                     FailCount(evs))

SendFinalSources(t) ==
    LET me == th[t]
        st == Get(me.st)
        fr == Get(me.fr)
    IN /\ me.pc = "fin_sources"
       /\ \E evs \in Allowed(SendWithAutoDelete(huey, st.chat_id, SourcesText(fr), 0,
                                                  "HTML", NewId(me))) :
               Local(t, [WithOut(me, evs) EXCEPT !.pc = "done"], FailCount(evs))

(***************************************************************************)
(* _handle_clarification_response, lines 263-296.                          *)
(***************************************************************************)
\* a reply handler that leaves the entry in the map
KeepPending(p, chat) == p

\* `del _pending_clarifications[chat_id]` on a chat that has an entry
DelPending(p, chat) == [p EXCEPT ![chat] = None]

\* line 264; KeyError when another invocation removed the entry first
ClarDelete(t) ==
    LET me == th[t] IN
    /\ me.pc = "clar_del"
    /\ IF IsSome(pending[me.chat])
       THEN /\ th' = [th EXCEPT ![t] = [me EXCEPT !.pc = "clar_load"]]
            /\ pending' = DelPending(pending, me.chat)
            /\ cleared' = cleared \cup { Get(pending[me.chat]).slot }
       ELSE /\ th' = [th EXCEPT ![t] = [me EXCEPT !.pc = "done", !.exc = "KeyError"]]
            /\ UNCHANGED <<pending, cleared>>
    /\ UNCHANGED <<store, nextConv, arrivals, faults, huey, concurrent, limits, re, call>>

\* lines 266-282: load the conversation, record the answer
ClarLoad(t) ==
    LET me == th[t]
        got == GetConversation(store, me.conv)
    IN /\ me.pc = "clar_load"
       /\ \E ok \in StoreOutcomes :
            LET me1 == [me EXCEPT !.db = Append(@, DbEv("get", ok, me.conv, <<>>))] IN
            Local(t,
                  IF ~ok THEN [me1 EXCEPT !.pc = "done", !.exc = "StoreError"]
                  ELSE IF ~IsSome(got) THEN [me1 EXCEPT !.pc = "done"]
                  ELSE IF ReplyRaises(Get(got), me.text)
                  THEN [me1 EXCEPT !.pc = "done", !.exc = "ValueError"]
                  ELSE [me1 EXCEPT !.pc = "clar_persist",
                                   !.st = Some(RecordAnswer(Get(got), me.text))],
                  IF ok THEN 0 ELSE 1)

\* lines 284-288
ClarPersist(t) ==
    LET me == th[t]
        st == Get(me.st)
    IN /\ me.pc = "clar_persist"
       /\ \E ok \in StoreOutcomes :
            PersistUpdate(t, me,
                [clarification_context |-> st.clarification_context,
                 pending_clarification |-> None, pending_options |-> <<>>],
                ok, "clar_status")

\* lines 290-296; the _persist_update of line 294 is ClarPersistStatus
ClarStatus(t) ==
    LET me == th[t]
        st == Get(me.st)
    IN /\ me.pc = "clar_status"
       /\ \E evs \in Allowed(SendInitialStatus(huey, me.chat, me.mid, NewId(me))) :
            Local(t,
                  IF Raised(evs)
                  THEN [WithOut(me, evs) EXCEPT !.pc = "resolver", !.sid = 0]
                  ELSE [WithOut(me, evs) EXCEPT
                          !.pc = "clar_persist_sid", !.sid = NewId(me),
                          !.st = Some([st EXCEPT !.status_message_id = NewId(me)])],
                  FailCount(evs))

ClarPersistStatus(t) ==
    LET me == th[t] IN
    /\ me.pc = "clar_persist_sid"
    /\ \E ok \in StoreOutcomes :
         PersistUpdate(t, me, [status_message_id |-> me.sid], ok, "resolver")

(***************************************************************************)
(* The orchestrator.                                                       *)
(***************************************************************************)
Next ==
    \E t \in Threads :
        \/ Arrive(t) \/ Check(t) \/ Read(t)
        \/ SendStatus(t) \/ CreateConv(t)
        \/ Resolver(t) \/ AskPersist(t) \/ AskNotify(t)
        \/ ResearchStage(t) \/ Search(t) \/ SearchRaises(t) \/ ResearchPersist(t)
        \/ FailPersist(t) \/ FailNotify(t)
        \/ Synthesize(t) \/ SynthPersist(t) \/ FallbackPersist(t)
        \/ SendFinalMain(t) \/ SendFinalSources(t)
        \/ ClarDelete(t) \/ ClarLoad(t) \/ ClarPersist(t) \/ ClarStatus(t)
        \/ ClarPersistStatus(t)

\* handlers run one at a time
Spec == Init /\ [][Next]_vars

\* the steps of a run in which every backend call succeeds
NextGood ==
    \E t \in Threads :
        \/ Arrive(t) \/ Check(t) \/ Read(t)
        \/ SendStatus(t) \/ CreateConv(t)
        \/ Resolver(t) \/ AskPersist(t) \/ AskNotify(t)
        \/ ResearchStage(t) \/ Search(t) \/ ResearchPersist(t)
        \/ Synthesize(t) \/ SynthPersist(t)
        \/ SendFinalMain(t) \/ SendFinalSources(t)
        \/ ClarDelete(t) \/ ClarLoad(t) \/ ClarPersist(t) \/ ClarStatus(t)
        \/ ClarPersistStatus(t)

\* handlers run concurrently on the dispatcher's worker threads
SpecConc == InitConc /\ [][NextGood]_vars

\* handlers run one at a time, a third message follows the reply
SpecReplies == InitReplies /\ [][NextGood]_vars

\* the same run with answers longer than one Telegram message
SpecLong == InitLong /\ [][NextGood]_vars

(***************************************************************************)
(* The research engine called on its own: research_single(question,        *)
(* max_retries) or research_query(sub_query, max_retries), one             *)
(* generate_content call per step, over every response of the backend.     *)
(* re.last is the last iteration: the backend's response, the outcome of   *)
(* the HEAD probes and the loop variables before it.                       *)
(***************************************************************************)
ResearchFunctions == {"research_single", "research_query"}
RetryCounts == (0 - 1)..MaxRetriesBound

\* sub_query_id of the result: "main" for research_single, sub_query.id else
ResultId(fn) == IF fn = "research_single" THEN "main" ELSE "sq-1"

InitResearch ==
    /\ InitHandler /\ huey = FALSE /\ concurrent = FALSE
    /\ limits = Limits(0, 0, TRUE) /\ call = NoCall
    /\ \E fn \in ResearchFunctions, m \in RetryCounts :
         re = [fn |-> fn, loop |-> Some(LoopStart(ResultId(fn), m)), last |-> None]

\* one iteration of the retry loop of the function called
EngineIteration ==
    /\ LoopRunning(Get(re.loop))
    /\ \E o \in SearchOutcomes, probe \in Probes :
         re' = [re EXCEPT !.loop = Some(LoopIteration(Get(re.loop), o, probe)),
                          !.last = Some([outcome |-> o, probe |-> probe,
                                         before |-> Get(re.loop)])]
    /\ UNCHANGED <<th, pending, store, nextConv, arrivals, faults, huey, concurrent, limits, cleared, call>>

ResearchSingle ==
    /\ re.fn = "research_single"
    /\ EngineIteration

ResearchQuery ==
    /\ re.fn = "research_query"
    /\ EngineIteration

NextResearch == ResearchSingle \/ ResearchQuery

SpecResearch == InitResearch /\ [][NextResearch]_vars

(***************************************************************************)
(* The answer-recording step of _handle_clarification_response (lines      *)
(* 271-282) on its own, over the replies a user can type.                  *)
(***************************************************************************)
ReplyTexts ==
    { Lit("2"), Rep(" ", 1) \o Lit("2") \o Rep(" ", 2), Lit("0"), Lit("3"), Lit("4"),
      Lit("0") \o Lit("2"), Lit("1") \o Lit("0"), Lit("mercury"), EmptyText,
      Rep(" ", 1), Lit("2") \o Lit("nd"), Lit("-") \o Lit("1"), Lit("+") \o Lit("2"),
      Lit("1") \o Rep(" ", 1) \o Lit("2"), Lit("2") \o Lit("."), Lit("²") }
PendingOptionLists ==
    { <<>>,
      << "Mercury (planet)", "Mercury (element)" >>,
      << "Mercury (planet)", "Mercury (element)", "Mercury (god)" >> }
PendingQuestions == { None, Some(Lit("which one?")) }
PriorContexts ==
    { <<>>,
      << Lit("Q: when?\nA: today") >>,
      << Lit("Q: when?\nA: today"), Lit("Q: where?\nA: here") >> }

\* a conversation awaiting clarification, as get_conversation returns it
AwaitingStates ==
    { [ConversationState(1, 1, 1, 10, Lit("mercury")) EXCEPT
          !.stage = "AWAITING_CLARIFICATION",
          !.pending_clarification = q,
          !.pending_options = o,
          !.clarification_context = c]
      : q \in PendingQuestions, o \in PendingOptionLists, c \in PriorContexts }

InitReply ==
    /\ InitHandler /\ huey = FALSE /\ concurrent = FALSE /\ re = InitEngine
    /\ limits = Limits(0, 0, TRUE)
    /\ \E state \in AwaitingStates, response \in ReplyTexts :
         call = [fn |-> "record_answer", args |-> << state, response >>, out |-> None]

\* lines 271-282: the new state, or the ValueError of int()
RecordReply ==
    /\ call.fn = "record_answer"
    /\ call.out = None
    /\ LET state == call.args[1]
           response == call.args[2]
       IN call' = [call EXCEPT !.out =
                     Some(IF ReplyRaises(state, response)
                          THEN [raised |-> "ValueError", state |-> state]
                          ELSE [raised |-> "", state |-> RecordAnswer(state, response)])]
    /\ UNCHANGED <<th, pending, store, nextConv, arrivals, faults, huey, concurrent, limits,
                   cleared, re>>

NextReply == RecordReply

SpecReply == InitReply /\ [][NextReply]_vars

(***************************************************************************)
(* research_all (researcher.py lines 202-241) called on its own: a list of *)
(* sub-queries is mapped over a ThreadPoolExecutor whose workers run       *)
(* research_query, one generate_content call per step; when every search   *)
(* has finished the results are stored by index and the progress callback  *)
(* is called.  progress is the history of the calls of on_progress.        *)
(***************************************************************************)
MaxQueries == 6
POOL_MAX_WORKERS == 5
QUERY_MAX_RETRIES == 1

SubQuery(i) == [id |-> "sq-" \o ToString(i), query_text |-> Lit("q"), aspect |-> "a"]

\* the lists research_all is called with
SubQueryLists == { [i \in 1..n |-> SubQuery(i)] : n \in 0..MaxQueries }

\* what generate_content does for a sub-query of a fan-out
PoolSearchOutcomes ==
    { o \in SearchOutcomes :
        \/ o.kind = "raise" /\ o.err = "timeout"
        \/ o.kind = "ok" /\ o.text = Some(Rep("a", 3)) /\ ~o.has_metadata /\ o.chunks = <<>> }

\* a pool as large as the list
MaxWorkersUncapped(total) == total

\* `max_workers=min(total, 5)`
MaxWorkers(total) == Min(total, POOL_MAX_WORKERS)

\* a callback told the count before the increment
ProgressArgsBefore(completed, total) == << completed - 1, total >>

\* `on_progress(completed, total)`
ProgressArgs(completed, total) == << completed, total >>

QueuedTask == [st |-> "queued", loop |-> None]

InFlight(tasks) == { i \in 1..Len(tasks) : tasks[i].st = "running" }
Queued(tasks) == { i \in 1..Len(tasks) : tasks[i].st = "queued" }
AllDone(tasks) == \A i \in 1..Len(tasks) : tasks[i].st = "done"

\* the least element of a non-empty set of indices
First(S) == CHOOSE i \in S : \A j \in S : i <= j

InitResearchAll ==
    /\ InitHandler /\ huey = FALSE /\ concurrent = FALSE
    /\ limits = Limits(0, 0, TRUE) /\ call = NoCall
    /\ \E sub_queries \in SubQueryLists, cb \in BOOLEAN :
         re = [fn |-> "research_all", loop |-> None, pc |-> "called",
               sub_queries |-> sub_queries, on_progress |-> cb,
               total |-> 0, completed |-> 0, results |-> <<>>, max_workers |-> 0,
               tasks |-> <<>>, futures |-> <<>>, progress |-> <<>>, raised |-> ""]

PoolUnchanged ==
    UNCHANGED <<th, pending, store, nextConv, arrivals, faults, huey, concurrent, limits,
                cleared, call>>

\* lines 216-232: the counters, the executor (its constructor raises
\* ValueError when max_workers is not positive) and the submission of every
\* sub-query by executor.map
OpenPool ==
    /\ re.fn = "research_all" /\ re.pc = "called"
    /\ LET total == Len(re.sub_queries) IN
       re' = IF MaxWorkers(total) <= 0
             THEN [re EXCEPT !.pc = "raised", !.raised = "ValueError", !.total = total,
                             !.results = [i \in 1..total |-> None]]
             ELSE [re EXCEPT !.pc = "map", !.total = total,
                             !.results = [i \in 1..total |-> None],
                             !.max_workers = MaxWorkers(total),
                             !.tasks = [i \in 1..total |-> QueuedTask]]
    /\ PoolUnchanged

\* a worker of the pool takes the next work item of the queue and enters
\* research_query (lines 220-223)
WorkerTakes ==
    /\ re.fn = "research_all" /\ re.pc = "map"
    /\ Queued(re.tasks) # {}
    /\ Cardinality(InFlight(re.tasks)) < re.max_workers
    /\ LET i == First(Queued(re.tasks)) IN
       re' = [re EXCEPT !.tasks[i] =
                [st |-> "running",
                 loop |-> Some(LoopStart(re.sub_queries[i].id, QUERY_MAX_RETRIES))]]
    /\ PoolUnchanged

\* one generate_content call of a running research_query; the work item is
\* finished when research_query returns
WorkerSearches ==
    /\ re.fn = "research_all" /\ re.pc = "map"
    /\ \E i \in InFlight(re.tasks), o \in PoolSearchOutcomes, probe \in Probes :
         LET nl == LoopIteration(Get(re.tasks[i].loop), o, probe) IN
         re' = [re EXCEPT !.tasks[i] =
                  [st |-> IF IsSome(nl.result) THEN "done" ELSE "running",
                   loop |-> Some(nl)]]
    /\ PoolUnchanged

\* lines 229-232: list(executor.map(...)) has every (idx, result) pair, in
\* the order of the input, once every work item is finished
Gather ==
    /\ re.fn = "research_all" /\ re.pc = "map"
    /\ AllDone(re.tasks)
    /\ re' = [re EXCEPT !.pc = "collect",
                        !.futures = [i \in 1..re.total |->
                                       [idx |-> i - 1,
                                        result |-> Get(Get(re.tasks[i].loop).result)]]]
    /\ PoolUnchanged

\* lines 235-239: one iteration of `for idx, result in futures`
Collect ==
    /\ re.fn = "research_all" /\ re.pc = "collect"
    /\ re.completed < Len(re.futures)
    /\ LET f == re.futures[re.completed + 1]
           completed == re.completed + 1
       IN re' = [re EXCEPT !.results[f.idx + 1] = Some(f.result),
                           !.completed = completed,
                           !.progress = IF re.on_progress
                                        THEN Append(@, ProgressArgs(completed, re.total))
                                        ELSE @]
    /\ PoolUnchanged

\* line 241, after the executor was shut down at the end of the with block
ReturnResults ==
    /\ re.fn = "research_all" /\ re.pc = "collect"
    /\ re.completed = Len(re.futures)
    /\ re' = [re EXCEPT !.pc = "returned"]
    /\ PoolUnchanged

NextResearchAll ==
    OpenPool \/ WorkerTakes \/ WorkerSearches \/ Gather \/ Collect \/ ReturnResults

SpecResearchAll == InitResearchAll /\ [][NextResearchAll]_vars

(***************************************************************************)
(* The synthesis engine (src/agentic/synthesizer.py) called on its own:    *)
(* synthesize(question, sub_queries, results) and summarize(question,      *)
(* research_result), over the replies of the synthesis model.              *)
(***************************************************************************)
MaxResults == 3

SrcA == SourceInfo("A", "https://a.example/1")
SrcA2 == SourceInfo("A2", "https://a.example/1")
SrcB == SourceInfo("B", "https://b.example/2")
SrcNoUrl == SourceInfo("E", "")

\* research results as the callers of the engine can build them
SynthesisInputs ==
    { ResearchResult("sq-1", Lit("mercury is a planet"), << SrcA, SrcNoUrl, SrcB >>, TRUE, None),
      ResearchResult("sq-2", Lit("mercury is a metal"), << SrcB, SrcA2 >>, TRUE, None),
      ResearchResult("sq-3", Lit("no sources"), <<>>, TRUE, None),
      ResearchResult("sq-4", EmptyText, << SrcA2 >>, TRUE, None),
      FailureResult("sq-5", QUERY_MAX_RETRIES, Some("timeout")) }

RECURSIVE SeqsUpTo(_, _)
SeqsUpTo(S, n) ==
    IF n = 0 THEN { <<>> }
    ELSE SeqsUpTo(S, n - 1)
         \cup { Append(q, x) : q \in { r \in SeqsUpTo(S, n - 1) : Len(r) = n - 1 }, x \in S }

ResultLists == SeqsUpTo(SynthesisInputs, MaxResults)

\* response.text of the synthesis model: text that SynthesisOutput does not
\* validate, or a SynthesisOutput
ModelReplies ==
    { [valid |-> FALSE, response_text |-> EmptyText, sections |-> <<>>] }
    \cup
    { [valid |-> TRUE, response_text |-> t, sections |-> sec] :
        t \in { Lit("answer"), EmptyText },
        sec \in { <<>>, << "Overview" >>, << "Overview", "Details" >> } }

RECURSIVE Flatten(_)
Flatten(lists) == IF lists = <<>> THEN <<>> ELSE lists[1] \o Flatten(Tail(lists))

\* the sources of all results, in the order the two loops visit them
AllSources(results) == Flatten([i \in 1..Len(results) |-> results[i].sources])

\* a de-duplication that keeps sources without a URL
RECURSIVE DedupKeepEmpty(_, _, _)
DedupKeepEmpty(sources, seen_urls, unique_sources) ==
    IF sources = <<>> THEN unique_sources
    ELSE IF sources[1].url \notin seen_urls
         THEN DedupKeepEmpty(Tail(sources), seen_urls \cup { sources[1].url },
                             Append(unique_sources, sources[1]))
         ELSE DedupKeepEmpty(Tail(sources), seen_urls, unique_sources)

\* the loop of _deduplicate_sources, lines 146-150
RECURSIVE DedupLoop(_, _, _)
DedupLoop(sources, seen_urls, unique_sources) ==
    IF sources = <<>> THEN unique_sources
    ELSE IF sources[1].url # "" /\ sources[1].url \notin seen_urls
         THEN DedupLoop(Tail(sources), seen_urls \cup { sources[1].url },
                        Append(unique_sources, sources[1]))
         ELSE DedupLoop(Tail(sources), seen_urls, unique_sources)

DeduplicateSources(results) == DedupLoop(AllSources(results), {}, <<>>)

\* `result.success and result.response_text` of _format_research_findings
ContributesText(result) == result.success /\ Truthy(result.response_text)

\* synthesize, lines 87-98: model_validate_json raises on a reply that is
\* not a SynthesisOutput
SynthesizeResult(results, reply) ==
    IF ~reply.valid THEN [raised |-> "ValidationError", response |-> None]
    ELSE [raised |-> "",
          response |-> Some(SynthesizedResponse(reply.response_text,
                                                DeduplicateSources(results),
                                                reply.sections))]

\* summarize, lines 189-196
SummarizeResult(research_result, reply) ==
    IF ~reply.valid THEN [raised |-> "ValidationError", response |-> None]
    ELSE [raised |-> "",
          response |-> Some(SynthesizedResponse(reply.response_text,
                                                research_result.sources,
                                                reply.sections))]

InitSynthesis ==
    /\ InitHandler /\ huey = FALSE /\ concurrent = FALSE /\ re = InitEngine
    /\ limits = Limits(0, 0, TRUE)
    /\ \/ \E results \in ResultLists, reply \in ModelReplies :
            call = [fn |-> "synthesize", args |-> << results, reply >>, out |-> None]
       \/ \E research_result \in SynthesisInputs, reply \in ModelReplies :
            call = [fn |-> "summarize", args |-> << research_result, reply >>, out |-> None]

CallUnchanged ==
    UNCHANGED <<th, pending, store, nextConv, arrivals, faults, huey, concurrent, limits,
                cleared, re>>

SynthesizeCall ==
    /\ call.fn = "synthesize" /\ call.out = None
    /\ call' = [call EXCEPT !.out = Some(SynthesizeResult(call.args[1], call.args[2]))]
    /\ CallUnchanged

SummarizeCall ==
    /\ call.fn = "summarize" /\ call.out = None
    /\ call' = [call EXCEPT !.out = Some(SummarizeResult(call.args[1], call.args[2]))]
    /\ CallUnchanged

NextSynthesis == SynthesizeCall \/ SummarizeCall

SpecSynthesis == InitSynthesis /\ [][NextSynthesis]_vars

(***************************************************************************)
(* decompose (src/agentic/decomposer.py, lines 138-190) called on its own, *)
(* over the replies of the generator.                                      *)
(***************************************************************************)
MaxItems == 6
MIN_SUB_QUERIES == 2
MAX_SUB_QUERIES == 5

SubQueryItem(query_text, aspect) == [query_text |-> query_text, aspect |-> aspect]

GeneratorItems ==
    { SubQueryItem(Lit("what is mercury"), "definition"),
      SubQueryItem(Lit("where is mercury"), "location") }

\* response.text of the generator: text that is not JSON of the schema's
\* shape, or a list of items with a reasoning
GeneratorReplies ==
    { [json |-> FALSE, sub_queries |-> <<>>] }
    \cup
    { [json |-> TRUE, sub_queries |-> q] : q \in SeqsUpTo(GeneratorItems, MaxItems) }

DecomposeQuestions == { Lit("mercury") }

\* SubQueryList.model_validate_json: the reply must parse and its list must
\* have min_length=2 and max_length=5
SubQueryListValidates(reply) ==
    /\ reply.json
    /\ Len(reply.sub_queries) >= MIN_SUB_QUERIES
    /\ Len(reply.sub_queries) <= MAX_SUB_QUERIES

\* lines 170-180: pad with the question up to 2, cut to the first 5
RECURSIVE PadTo(_, _, _)
PadTo(sub_queries, n, item) ==
    IF Len(sub_queries) < n THEN PadTo(Append(sub_queries, item), n, item) ELSE sub_queries

EnsureCount(sub_queries, question) ==
    IF Len(sub_queries) < MIN_SUB_QUERIES
    THEN PadTo(sub_queries, MIN_SUB_QUERIES, SubQueryItem(question, "General overview"))
    ELSE IF Len(sub_queries) > MAX_SUB_QUERIES
         THEN SubSeq(sub_queries, 1, MAX_SUB_QUERIES)
         ELSE sub_queries

\* lines 183-190: a SubQuery per item, with a fresh id (uuid4) each
ToSubQueries(items) ==
    [i \in 1..Len(items) |->
        [id |-> "sq-" \o ToString(i), query_text |-> items[i].query_text,
         aspect |-> items[i].aspect]]

\* decompose, lines 166-190
DecomposeResult(question, reply) ==
    IF ~SubQueryListValidates(reply)
    THEN [raised |-> "ValidationError", sub_queries |-> <<>>]
    ELSE [raised |-> "", sub_queries |-> ToSubQueries(EnsureCount(reply.sub_queries, question))]

InitDecompose ==
    /\ InitHandler /\ huey = FALSE /\ concurrent = FALSE /\ re = InitEngine
    /\ limits = Limits(0, 0, TRUE)
    /\ \E question \in DecomposeQuestions, reply \in GeneratorReplies :
         call = [fn |-> "decompose", args |-> << question, reply >>, out |-> None]

DecomposeCall ==
    /\ call.fn = "decompose" /\ call.out = None
    /\ call' = [call EXCEPT !.out = Some(DecomposeResult(call.args[1], call.args[2]))]
    /\ CallUnchanged

NextDecompose == DecomposeCall

SpecDecompose == InitDecompose /\ [][NextDecompose]_vars

(***************************************************************************)
(* The StatusManager (src/agentic/status_manager.py) called on its own: a  *)
(* sequence of calls of its four methods on one chat, over every outcome   *)
(* of the transport and scheduler calls.  call.ops is the history of the   *)
(* calls: the method, its message_id and text arguments, the transport and *)
(* scheduler calls it made, whether it raised.                             *)
(***************************************************************************)
MaxOps == 3
GoneMessageId == 99

StatusOp(name, message_id, text, evs, raised) ==
    [name |-> name, message_id |-> message_id, text |-> text, evs |-> evs, raised |-> raised]

\* every transport and scheduler call made so far, in order
OpEvents(ops) == Flatten([i \in 1..Len(ops) |-> ops[i].evs])

\* the id Telegram gives the next message sent
NextMessageId(ops) == SentCount(OpEvents(ops)) + 1

\* the message ids a caller can pass: those of the messages sent so far,
\* and the id of a message that no longer exists
KnownMessageIds(ops) == 1..SentCount(OpEvents(ops)) \cup { GoneMessageId }

InitStatus ==
    /\ InitHandler /\ huey \in BOOLEAN /\ concurrent = FALSE /\ re = InitEngine
    /\ limits = Limits(0, 0, TRUE)
    /\ call = [fn |-> "status_manager", args |-> <<>>, out |-> None, ops |-> <<>>]

StatusCall(op) ==
    /\ call.fn = "status_manager"
    /\ Len(call.ops) < MaxOps
    /\ call' = [call EXCEPT !.ops = Append(@, op)]
    /\ CallUnchanged

SendInitialStatusOp ==
    \E evs \in SendInitialStatus(huey, 1, 10, NextMessageId(call.ops)) :
        StatusCall(StatusOp("send_initial_status", 0, StageMessage("THINKING"), evs,
                            Raised(evs)))

\* update_status never raises
UpdateStatusOp ==
    \E id \in KnownMessageIds(call.ops), stage \in {"RESEARCHING", "SYNTHESIZING"} :
        \E evs \in UpdateStatus(1, id, stage) :
            StatusCall(StatusOp("update_status", id, StageMessage(stage), evs, FALSE))

ReplaceWithResponseOp ==
    \E id \in KnownMessageIds(call.ops), parse_mode \in {"", "HTML"} :
        \E evs \in ReplaceWithResponse(huey, 1, id, Lit("answer"), parse_mode,
                                       NextMessageId(call.ops)) :
            StatusCall(StatusOp("replace_with_response", id, Lit("answer"), evs, Raised(evs)))

SendWithAutoDeleteOp ==
    \E evs \in SendWithAutoDelete(huey, 1, Lit("sources"), 0, "HTML",
                                  NextMessageId(call.ops)) :
        StatusCall(StatusOp("send_with_auto_delete", 0, Lit("sources"), evs, Raised(evs)))

NextStatus ==
    SendInitialStatusOp \/ UpdateStatusOp \/ ReplaceWithResponseOp \/ SendWithAutoDeleteOp

SpecStatus == InitStatus /\ [][NextStatus]_vars

(***************************************************************************)
(* The MongoStore (src/agentic/mongo_store.py) called on its own: a        *)
(* sequence of create_conversation, update_conversation and                *)
(* get_conversation calls on one collection.  call.coll is the collection, *)
(* call.ops the history of the calls: the method, the id, the state or the *)
(* updates passed, the collection before and after, what was returned.     *)
(* Conversation ids are unique (models.py:66, handler.py:83), so a state   *)
(* is created only under an id the collection does not hold.               *)
(***************************************************************************)
MaxStoreOps == 3
StoreIds == 1..2

\* the states a caller persists: any stage, finished or not
StoreStates ==
    { [ConversationState(i, 1, 1, 1, Lit("question")) EXCEPT
          !.stage = stage, !.completed_at = done]
        : i \in StoreIds, stage \in Stages, done \in {None, Some("later")} }

\* the field updates the orchestrator passes (handler.py:143-146, 168-172,
\* 218-222, 294, 380-383), and two more of a single field
StoreUpdates ==
    { [stage |-> StageValue("RESEARCHING")],
      [error_message |-> Some("boom")],
      [status_message_id |-> 7],
      [stage |-> StageValue("FAILED"), error_message |-> Some("boom")],
      [research_results |-> << ResearchResult("single", Lit("found"), <<>>, TRUE, None) >>,
       stage |-> StageValue("RESEARCHING")],
      [final_response |-> Some(SynthesizedResponse(Lit("answer"), <<>>, <<>>)),
       stage |-> StageValue("COMPLETE"), completed_at |-> Some(IsoFormat("later"))],
      [pending_clarification |-> Some("Which one?"), pending_options |-> <<"a", "b">>,
       stage |-> StageValue("AWAITING_CLARIFICATION")] }

StoreOp(name, id, arg, before, after, out) ==
    [name |-> name, id |-> id, arg |-> arg, before |-> before, after |-> after, out |-> out]

InitStore ==
    /\ InitHandler /\ huey = FALSE /\ concurrent = FALSE /\ re = InitEngine
    /\ limits = Limits(0, 0, TRUE)
    /\ call = [fn |-> "mongo_store", args |-> <<>>, out |-> None,
               coll |-> [i \in StoreIds |-> None], ops |-> <<>>]

StoreCall(op) ==
    /\ call.fn = "mongo_store"
    /\ Len(call.ops) < MaxStoreOps
    /\ call' = [call EXCEPT !.coll = op.after, !.ops = Append(@, op)]
    /\ CallUnchanged

\* create_conversation returns state.id
CreateConversationOp ==
    \E state \in StoreStates :
        /\ call.coll[state.id] = None
        /\ StoreCall(StoreOp("create_conversation", state.id, state, call.coll,
                             CreateConversation(call.coll, state), Some(state.id)))

UpdateConversationOp ==
    \E id \in StoreIds, updates \in StoreUpdates :
        StoreCall(StoreOp("update_conversation", id, updates, call.coll,
                          UpdateConversation(call.coll, id, updates), None))

GetConversationOp ==
    \E id \in StoreIds :
        StoreCall(StoreOp("get_conversation", id, <<>>, call.coll, call.coll,
                          GetConversation(call.coll, id)))

NextStore == CreateConversationOp \/ UpdateConversationOp \/ GetConversationOp

SpecStore == InitStore /\ [][NextStore]_vars

(***************************************************************************)
(* _extract_sources (src/agentic/researcher.py, lines 110-146) called on   *)
(* its own: a response with up to MaxChunks grounding chunks, over every   *)
(* outcome of the HEAD probe of a redirect URL.                            *)
(***************************************************************************)
MaxChunks == 3

\* a destination that is itself a redirect URL of the provider
SecondHopUrl == "https://vertexaisearch.example/grounding-api-redirect/r2"

ChunkPool ==
    { Chunk(Some("A"), Some("https://a.example/1")),
      Chunk(Some("A2"), Some("https://a.example/1")),
      Chunk(None, Some("https://vertexaisearch.example/grounding-api-redirect/r1")),
      Chunk(Some("B"), Some("https://b.example/2")),
      Chunk(Some("E"), None),
      NoWebChunk }
ChunkLists == SeqsUpTo(ChunkPool, MaxChunks)

\* the probe may also answer with an empty Location or with one more redirect
ExtractProbeOutcomes ==
    ProbeOutcomes \cup
    { [kind |-> "status", code |-> 301, location |-> Some("")],
      [kind |-> "status", code |-> 307, location |-> Some(SecondHopUrl)] }
ExtractProbes == [RedirectUrls -> ExtractProbeOutcomes]

\* the HEAD requests of one extraction, in order
RECURSIVE ExtractRequests(_)
ExtractRequests(chunks) ==
    IF chunks = <<>> THEN <<>>
    ELSE LET ch == chunks[1]
             raw_url == IF IsSome(ch.uri) THEN Get(ch.uri) ELSE ""
         IN (IF ch.web THEN ResolveRequests(raw_url) ELSE <<>>)
            \o ExtractRequests(Tail(chunks))

InitExtract ==
    /\ InitHandler /\ huey = FALSE /\ concurrent = FALSE /\ re = InitEngine
    /\ limits = Limits(0, 0, TRUE)
    /\ \E chunks \in ChunkLists, m \in BOOLEAN, probe \in ExtractProbes :
         call = [fn |-> "_extract_sources",
                 args |-> << [kind |-> "ok", err |-> "", text |-> Some(Lit("found")),
                              has_metadata |-> m, chunks |-> chunks], probe >>,
                 out |-> None, requests |-> <<>>]

ExtractSourcesCall ==
    /\ call.fn = "_extract_sources" /\ call.out = None
    /\ call' = [call EXCEPT
                  !.out = Some(ExtractSources(call.args[1], call.args[2])),
                  !.requests = IF call.args[1].has_metadata
                               THEN ExtractRequests(call.args[1].chunks) ELSE <<>>]
    /\ CallUnchanged

NextExtract == ExtractSourcesCall

SpecExtract == InitExtract /\ [][NextExtract]_vars

(***************************************************************************)
(* SourceInfo.to_html (src/agentic/models.py, lines 26-28) and             *)
(* format_sources_html (src/agentic/status_manager.py, lines 23-34) called *)
(* on their own, over titles and URLs that hold HTML's special characters. *)
(***************************************************************************)
MaxSources == 3

HtmlSources ==
    { SourceInfo("A", "https://a.example/1"),
      SourceInfo("Q & A <b>", "https://b.example/?x=1&y=\"2\""),
      SourceInfo("left | right", "https://c.example/"),
      SourceInfo("", "") }
HtmlSourceLists == SeqsUpTo(HtmlSources, MaxSources)

InitHtml ==
    /\ InitHandler /\ huey = FALSE /\ concurrent = FALSE /\ re = InitEngine
    /\ limits = Limits(0, 0, TRUE)
    /\ \/ \E source \in HtmlSources :
            call = [fn |-> "to_html", args |-> << source >>, out |-> None]
       \/ \E sources \in HtmlSourceLists :
            call = [fn |-> "format_sources_html", args |-> << sources >>, out |-> None]

ToHtmlCall ==
    /\ call.fn = "to_html" /\ call.out = None
    /\ call' = [call EXCEPT !.out = Some(ToHtml(call.args[1]))]
    /\ CallUnchanged

FormatSourcesHtmlCall ==
    /\ call.fn = "format_sources_html" /\ call.out = None
    /\ call' = [call EXCEPT !.out = Some(FormatSourcesHtml(call.args[1]))]
    /\ CallUnchanged

NextHtml == ToHtmlCall \/ FormatSourcesHtmlCall

SpecHtml == InitHtml /\ [][NextHtml]_vars

(***************************************************************************)
(* Properties.                                                             *)
(***************************************************************************)
\* the calls of an invocation that carried a text to the chat
Carried(me, text) ==
    { i \in 1..Len(me.out) : me.out[i].op \in {"send", "edit"} /\ me.out[i].text = text }
Delivered(me, text) == \E i \in Carried(me, text) : me.out[i].ok
SendFailed(me, text) == \E i \in Carried(me, text) : me.out[i].op = "send" /\ ~me.out[i].ok
LastDb(me) == me.db[Len(me.db)]
SearchCalls(me) == IF IsSome(me.loop) THEN Get(me.loop).calls ELSE 0

\* C1: once the resolver of a new question asked for clarification, the
\* invocation makes no grounded-search call and no synthesis call, whatever
\* the transport calls made while asking do.
C1_SuspendsAfterAsking ==
    \A t \in Threads :
        LET me == th[t] IN
        (me.route = "new" /\ me.asked) => (SearchCalls(me) = 0 /\ me.nSynth = 0)

\* C2: no failure of a store operation propagates out of handle().
C2_StoreFailuresContained ==
    \A t \in Threads : th[t].exc # "StoreError"

\* C3: a message is routed by the pending entry of its chat: to the
\* clarification-response path when there is one, to a new conversation
\* otherwise.
C3_RoutedByPendingEntry ==
    [][\A t \in Threads :
          (th[t].pc = "check" /\ th'[t].pc # "check") =>
              IF IsSome(pending[th[t].chat])
              THEN th'[t].pc = "read" /\ th'[t].route = "clar" /\ nextConv' = nextConv
              ELSE th'[t].pc = "status" /\ th'[t].route = "new"]_vars

\* C3: on the clarification-response path no conversation is created, nothing
\* is done before the pending entry is removed, the entry is gone during every
\* later step, and a message that arrived after the removal of an entry is
\* never routed to that entry.
C3_ClearedBeforeAnyStep ==
    \A t \in Threads :
        LET me == th[t] IN
        /\ me.route = "new" => me.slot = 0
        /\ me.route = "clar" =>
              /\ \A i \in 1..Len(me.db) : me.db[i].op # "create"
              /\ me.pc \in {"read", "clar_del"} =>
                    /\ me.db = <<>> /\ me.out = <<>> /\ me.st = None
                    /\ me.nResolver = 0 /\ me.loop = None
              /\ (me.slot # 0 /\ me.pc # "clar_del") =>
                    /\ me.slot \in cleared
                    /\ ~(IsSome(pending[me.chat]) /\ Get(pending[me.chat]).slot = me.slot)
        /\ me.slot \notin me.seen

\* C3: a reply is routed to the clarification-response path, and the pending
\* entry is removed before any other step of that path and never serves a
\* later message.
C3_ReplyClaimsPendingFirst == []C3_ClearedBeforeAnyStep /\ C3_RoutedByPendingEntry

\* a message that arrived after an entry was removed is on the
\* clarification-response path of a later entry, which it has removed
C3_Witness ==
    \E t \in Threads :
        /\ th[t].route = "clar" /\ th[t].pc = "clar_load"
        /\ th[t].seen # {} /\ th[t].slot \in cleared

\* C4: of two replies handled concurrently while one clarification is
\* pending, none fails with an error and at most one is on the
\* clarification-response path of the pending conversation.
C4_ExclusiveClaim ==
    /\ \A t \in Threads : th[t].exc # "KeyError"
    /\ \A t1, t2 \in Threads :
          (t1 # t2 /\ th[t1].slot # 0 /\ th[t1].slot = th[t2].slot) =>
              (th[t1].exc # "" \/ th[t2].exc # "" \/ th[t1].pc = "clar_del"
               \/ th[t2].pc = "clar_del")

\* C5: the retry loop calls the backend at most max_retries + 1 times, makes
\* no call after the one that succeeded, always returns a result, and the
\* result of max_retries + 1 failed calls has success = false, an empty
\* response_text, no sources and a non-empty error_message.
C5_RetryLoop ==
    LET lp == Get(re.loop)
        limit == IF lp.max_retries >= 0 THEN lp.max_retries + 1 ELSE 0
    IN /\ lp.calls <= limit
       /\ ~LoopRunning(lp) => IsSome(lp.result)
       /\ IsSome(lp.result) =>
             LET r == Get(lp.result) IN
             IF r.success
             THEN lp.calls = lp.attempts + 1
             ELSE /\ lp.calls = limit /\ lp.attempts = limit
                  /\ r.response_text = EmptyText
                  /\ r.sources = <<>>
                  /\ IsSome(r.error_message)
                  /\ Len(Get(r.error_message)) > 0

\* every call of a loop with at least one retry failed
C5_Witness ==
    /\ IsSome(re.loop) /\ IsSome(Get(re.loop).result)
    /\ ~Get(Get(re.loop).result).success
    /\ Get(re.loop).calls >= 2
    /\ Get(re.loop).calls = Get(re.loop).max_retries + 1

\* C6: a result with success = true has a non-empty response_text.
C6_SuccessHasText ==
    (IsSome(re.loop) /\ IsSome(Get(re.loop).result) /\ Get(Get(re.loop).result).success)
        => Truthy(Get(Get(re.loop).result).response_text)

\* C7: when the grounded search fails on all its attempts or the research
\* step raises, the stage becomes FAILED, an update with stage "failed" and
\* the non-empty error message is issued to the store (and is in the stored
\* conversation when the store accepted it), synthesis is never called and no
\* final answer is built or sent.
C7_ResearchFailure ==
    \A t \in Threads :
        LET me == th[t] IN
        /\ (IsSome(me.rr) /\ ~Get(me.rr).success /\ me.pc # "rs_persist") => me.fail # ""
        /\ me.fail # "" =>
              /\ Get(me.st).stage = "FAILED"
              /\ Get(me.st).error_message = Some(me.fail)
              /\ Len(me.fail) > 0
              /\ me.nSynth = 0 /\ me.fr = None
              /\ me.pc \in {"fail_persist", "fail_notify", "done"}
              /\ me.pc \in {"fail_notify", "done"} =>
                    LET u == LastDb(me) IN
                    /\ u.op = "update" /\ u.id = me.conv
                    /\ u.fields.stage = StageValue("FAILED")
                    /\ u.fields.error_message = Some(me.fail)
                    /\ (u.ok /\ IsSome(store[me.conv])) =>
                          /\ Get(store[me.conv]).stage = StageValue("FAILED")
                          /\ Get(store[me.conv]).error_message = Some(me.fail)

\* both search attempts failed and the stored conversation is failed
C7_Witness ==
    \E t \in Threads :
        /\ th[t].pc = "done" /\ th[t].fail = "Research failed"
        /\ SearchCalls(th[t]) = DEFAULT_MAX_RETRIES + 1
        /\ IsSome(store[th[t].conv])
        /\ Get(store[th[t].conv]).stage = StageValue("FAILED")

\* C8: an invocation that reached FAILED and had no failed new-message send
\* of the notice has delivered the error notice to the chat.
C8_FailureNoticeDelivered ==
    \A t \in Threads :
        LET me == th[t] IN
        (me.pc = "done" /\ me.fail # "" /\ ~SendFailed(me, ErrorNotice(me.fail)))
            => Delivered(me, ErrorNotice(me.fail))

\* C9: when synthesis fails after a successful research, the stage is not
\* FAILED, the final response is the first 500 characters at most of the
\* research text (the placeholder when that text is empty) with the research
\* sources, the synthesis error is in error_message, an update with stage
\* "complete" is issued to the store, and the final answer is sent.
C9_SynthesisFallback ==
    \A t \in Threads :
        LET me == th[t] IN
        me.synFailed =>
            LET st == Get(me.st)
                rr == Get(me.rr)
                fr == Get(me.fr)
            IN /\ rr.success
               /\ st.stage # "FAILED" /\ me.fail = ""
               /\ IF Truthy(rr.response_text)
                  THEN /\ TLen(fr.response_text)
                            = Min(FALLBACK_EXCERPT_LEN, TLen(rr.response_text))
                       /\ Take(rr.response_text, TLen(fr.response_text)) = fr.response_text
                  ELSE fr.response_text = FallbackPlaceholder
               /\ fr.sources = rr.sources
               /\ st.final_response = me.fr
               /\ IsSome(st.error_message)
               /\ Get(st.error_message) \in { "Synthesis failed: " \o e : e \in HandlerErrors }
               /\ me.pc \in {"fb_persist", "fin_main", "fin_sources", "done"}
               /\ me.pc # "fb_persist" =>
                     LET u == LastDb(me) IN
                     /\ u.op = "update" /\ u.id = me.conv
                     /\ u.fields.stage = StageValue("COMPLETE")
                     /\ u.fields.final_response = me.fr
                     /\ u.fields.error_message = st.error_message
                     /\ (u.ok /\ IsSome(store[me.conv])) =>
                           /\ Get(store[me.conv]).stage = StageValue("COMPLETE")
                           /\ Get(store[me.conv]).final_response = me.fr
                           /\ Get(store[me.conv]).error_message = st.error_message
               /\ me.pc \in {"fin_sources", "done"} =>
                     /\ Carried(me, fr.response_text) # {}
                     /\ ~SendFailed(me, fr.response_text) => Delivered(me, fr.response_text)

\* a fallback answer cut to 500 characters has been delivered
C9_Witness ==
    \E t \in Threads :
        /\ th[t].synFailed /\ th[t].pc = "done"
        /\ TLen(Get(th[t].rr).response_text) > FALLBACK_EXCERPT_LEN
        /\ TLen(Get(th[t].fr).response_text) = FALLBACK_EXCERPT_LEN
        /\ Delivered(th[t], Get(th[t].fr).response_text)

\* C10: at the return of handle() the stage of its conversation is
\* AWAITING_CLARIFICATION, COMPLETE or FAILED.
C10_ReturnsAtRestingStage ==
    \A t \in Threads :
        LET me == th[t] IN
        (me.pc = "done" /\ IsSome(me.st) /\ me.exc = "")
            => Get(me.st).stage \in {"AWAITING_CLARIFICATION", "COMPLETE", "FAILED"}

\* the place of a stage in the order THINKING, DECOMPOSING, RESEARCHING,
\* SYNTHESIZING, COMPLETE; AWAITING_CLARIFICATION stands beside THINKING
StageRank(s) ==
    CASE s \in {"THINKING", "AWAITING_CLARIFICATION"} -> 0
      [] s = "DECOMPOSING" -> 1
      [] s = "RESEARCHING" -> 2
      [] s = "SYNTHESIZING" -> 3
      [] s = "COMPLETE" -> 4
      [] s = "FAILED" -> 5
ForwardChange(a, b) ==
    /\ a \notin {"COMPLETE", "FAILED"}
    /\ \/ b = "FAILED"
       \/ StageRank(b) > StageRank(a)
       \/ {a, b} = {"THINKING", "AWAITING_CLARIFICATION"}

\* C11: every change of a conversation's stage, in the working state of an
\* invocation and in the stored conversation, goes forward in the stage
\* order or to FAILED, and COMPLETE and FAILED are never left.
C11_StageNeverMovesBack ==
    [][/\ \A t \in Threads :
            (/\ IsSome(th[t].st) /\ IsSome(th'[t].st)
             /\ th[t].arr = th'[t].arr
             /\ Get(th[t].st).stage # Get(th'[t].st).stage)
                => ForwardChange(Get(th[t].st).stage, Get(th'[t].st).stage)
       /\ \A c \in ConvIds :
            (/\ IsSome(store[c]) /\ IsSome(store'[c])
             /\ Get(store[c]).stage # Get(store'[c]).stage)
                => ForwardChange(StageOf(Get(store[c]).stage), StageOf(Get(store'[c]).stage))
      ]_vars

\* C12: an invocation whose resolver call failed is not suspended: it asks
\* nothing, writes no pending entry, leaves the stage out of
\* AWAITING_CLARIFICATION and goes on to the grounded search.
C12_ResolverFailsOpen ==
    \A t \in Threads :
        LET me == th[t] IN
        me.resolverRaised =>
            /\ ~me.asked /\ me.cr = None
            /\ me.exc = ""
            /\ me.pc = "rs_stage" \/ Get(me.st).stage # "AWAITING_CLARIFICATION"
            /\ ~(IsSome(pending[me.chat]) /\ Get(pending[me.chat]).slot = me.arr)
            /\ me.pc \in {"rs_stage", "search", "rs_persist", "fail_persist", "fail_notify",
                          "synth", "syn_persist", "fb_persist", "fin_main", "fin_sources",
                          "done"}
            /\ me.pc # "rs_stage" => IsSome(me.loop)
            /\ me.pc = "done" => (SearchCalls(me) >= 1 \/ me.fail # "")

\* the resolver failed when it was run again after a reply, and the search
\* was called
C12_Witness ==
    \E t \in Threads :
        /\ th[t].resolverRaised /\ th[t].route = "clar"
        /\ SearchCalls(th[t]) >= 1

\* a string of decimal digits
IsBareInteger(t) == t # <<>> /\ \A i \in 1..Len(t) : t[i].c \in DigitChars

\* the answer a reply stands for: the value of option n for a bare integer n
\* within the option range, the reply itself otherwise
ExpectedAnswer(options, response) ==
    IF /\ options # <<>>
       /\ IsBareInteger(Strip(response))
       /\ IntOf(Strip(response)) \in 1..Len(options)
    THEN Lit(options[IntOf(Strip(response))])
    ELSE response

\* C13: the answer recorded for a reply is the value of the n-th option when
\* the trimmed reply is a bare integer n within the option range, and the
\* literal reply text in every other case.
C13_AnswerRecorded ==
    (call.fn = "record_answer" /\ IsSome(call.out)) =>
        LET state == call.args[1]
            response == call.args[2]
            out == Get(call.out)
            ctx == out.state.clarification_context
        IN /\ out.raised = ""
           /\ ctx[Len(ctx)] =
                Lit("Q: ") \o FormatOpt(state.pending_clarification) \o Lit("\nA: ")
                \o ExpectedAnswer(state.pending_options, response)

\* the same, for the replies on which int() does not raise
C13_AnswerRecordedWhenParsed ==
    (call.fn = "record_answer" /\ IsSome(call.out) /\ Get(call.out).raised = "") =>
        LET state == call.args[1]
            response == call.args[2]
            ctx == Get(call.out).state.clarification_context
        IN ctx[Len(ctx)] =
             Lit("Q: ") \o FormatOpt(state.pending_clarification) \o Lit("\nA: ")
             \o ExpectedAnswer(state.pending_options, response)

\* C14: a handled reply puts one "Q: <pending question>\nA: <answer>" entry
\* at the end of clarification_context, keeps the earlier entries as they
\* are and clears pending_clarification and pending_options, in the working
\* state and in the update issued to the store.
C14_OneEntryAppended ==
    \A t \in Threads :
        LET me == th[t] IN
        /\ me.pc = "clar_persist" =>
              LET doc == Get(store[me.conv])
                  st == Get(me.st)
                  old == doc.clarification_context
                  new == st.clarification_context
              IN /\ Len(new) = Len(old) + 1
                 /\ SubSeq(new, 1, Len(old)) = old
                 /\ new[Len(new)] =
                      Lit("Q: ") \o FormatOpt(doc.pending_clarification) \o Lit("\nA: ")
                      \o ExpectedAnswer(doc.pending_options, me.text)
                 /\ st.pending_clarification = None
                 /\ st.pending_options = <<>>
        /\ me.pc = "clar_status" =>
              LET u == LastDb(me)
                  st == Get(me.st)
              IN /\ u.op = "update" /\ u.id = me.conv
                 /\ u.fields = [clarification_context |-> st.clarification_context,
                                pending_clarification |-> None,
                                pending_options |-> <<>>]
                 /\ u.ok =>
                      /\ Get(store[me.conv]).clarification_context = st.clarification_context
                      /\ Get(store[me.conv]).pending_clarification = None
                      /\ Get(store[me.conv]).pending_options = <<>>

\* the second reply of a conversation has been recorded after the first and
\* the store has taken the update
C14_Witness ==
    \E t \in Threads :
        /\ th[t].pc = "clar_status"
        /\ Len(Get(th[t].st).clarification_context) = 2
        /\ LastDb(th[t]).ok
        /\ Len(Get(store[th[t].conv]).clarification_context) = 2

\* the record a round is to leave in the history: its question and the
\* answer the reply stands for
RoundRecord(r) ==
    Lit("Q: ") \o FormatOpt(r.q) \o Lit("\nA: ") \o ExpectedAnswer(r.opts, r.text)

ExpectedContext(rounds) == [i \in 1..Len(rounds) |-> RoundRecord(rounds[i])]

ExpectedFullQuestion(orig, rounds) ==
    orig \o Lit("\n\nContext:\n") \o JoinWith(Lit("\n"), ExpectedContext(rounds))

\* C15: after k clarification rounds the resumed conversation holds the
\* original question and the k question/answer records in order, each with
\* the question that was asked in its round, when the resolver is run again
\* and in the combined question given to the search.
C15_HistoryCarriedForward ==
    \A t \in Threads :
        LET me == th[t] IN
        me.route = "clar" =>
            /\ me.pc = "resolver" =>
                  /\ Get(me.st).original_question = me.orig
                  /\ Get(me.st).clarification_context = ExpectedContext(me.rounds)
            /\ me.pc = "search" =>
                  me.fq = ExpectedFullQuestion(me.orig, me.rounds)

\* the same, for conversations whose store updates all succeeded
C15_HistoryCarriedWhenStored ==
    faults = 0 => C15_HistoryCarriedForward

\* two rounds were recorded and the search is about to be made
C15_TwoRoundsReachSearch ==
    \E t \in Threads :
        /\ th[t].route = "clar" /\ th[t].pc = "search" /\ Len(th[t].rounds) = 2
        /\ faults = 0

\* C16: after a clarification reply the resolver is run again before any
\* research; when it asks again the conversation awaits clarification with a
\* new pending entry of the chat and no search is made, and when it does not
\* ask the conversation goes on to research.
C16_RecheckBeforeResearch ==
    \A t \in Threads :
        LET me == th[t] IN
        me.route = "clar" =>
            /\ (SearchCalls(me) > 0 \/ me.pc \in {"rs_stage", "search"}) => me.nResolver = 1
            /\ me.asked =>
                  /\ SearchCalls(me) = 0
                  /\ me.pc \notin {"rs_stage", "search"}
                  /\ Get(me.st).stage = "AWAITING_CLARIFICATION"
                  /\ IsSome(pending[me.chat])
                  /\ Get(pending[me.chat]).conv = me.conv
                  /\ Get(pending[me.chat]).slot = me.arr

\* the same, while the question of the new round has not failed to be sent
C16_RecheckWhenQuestionSent ==
    \A t \in Threads :
        LET me == th[t] IN
        (me.route = "clar" /\ me.asked /\ FailCount(me.out) = 0) =>
            /\ SearchCalls(me) = 0
            /\ me.pc \notin {"rs_stage", "search"}
            /\ Get(me.st).stage = "AWAITING_CLARIFICATION"
            /\ IsSome(pending[me.chat])
            /\ Get(pending[me.chat]).conv = me.conv
            /\ Get(pending[me.chat]).slot = me.arr

\* the status texts; every other text sent or edited in is a notification
\* for the user (clarification question, answer, citations, error notice)
StatusTexts == { StageMessage(s) : s \in Stages }

\* the first attempts to deliver a notification that failed
FailedFirstAttempts(me) ==
    { i \in 1..Len(me.out) :
        /\ me.out[i].op \in {"send", "edit"}
        /\ ~me.out[i].ok
        /\ me.out[i].text \notin StatusTexts
        /\ \A j \in 1..(i - 1) : j \notin Carried(me, me.out[i].text) }

Resent(me, i) ==
    \E j \in (i + 1)..Len(me.out) :
        me.out[j].op = "send" /\ me.out[j].text = me.out[i].text

\* C17: when the first attempt to deliver a notification fails, the
\* invocation sends a new message with the same content before it ends.
C17_FailedNotificationResent ==
    \A t \in Threads :
        th[t].pc = "done" => \A i \in FailedFirstAttempts(th[t]) : Resent(th[t], i)

\* the same, for the notifications that replace the status message (the
\* answer and the error notice when a status message exists)
C17_FailedReplacementResent ==
    \A t \in Threads :
        th[t].pc = "done" =>
            \A i \in FailedFirstAttempts(th[t]) :
                th[t].out[i].op = "edit" => Resent(th[t], i)

\* C18: research_all returns one result per sub-query, result i carrying
\* the identifier of sub-query i, for every list of sub-queries, the empty
\* one included; it does not end in any other way.
C18_OneResultPerSubQuery ==
    re.fn = "research_all" =>
        /\ re.pc # "raised"
        /\ re.pc = "returned" =>
              /\ Len(re.results) = Len(re.sub_queries)
              /\ \A i \in 1..Len(re.sub_queries) :
                    /\ IsSome(re.results[i])
                    /\ Get(re.results[i]).sub_query_id = re.sub_queries[i].id

\* the same, for the lists that are not empty
C18_OneResultPerSubQueryNonEmpty ==
    (re.fn = "research_all" /\ re.sub_queries # <<>>) => C18_OneResultPerSubQuery

\* C19: the progress callback of a research_all call over N sub-queries is
\* called with (1, N), (2, N), ..., in this order, and N times in all by the
\* time the call has returned.
C19_ProgressCounts ==
    (re.fn = "research_all" /\ re.on_progress) =>
        LET N == Len(re.sub_queries) IN
        /\ Len(re.progress) <= N
        /\ \A k \in 1..Len(re.progress) : re.progress[k] = << k, N >>
        /\ re.pc = "returned" => Len(re.progress) = N
        /\ re.pc = "raised" => Len(re.progress) = N

\* a call over the largest list has returned with its callback called for
\* every sub-query, some searches having succeeded and some having failed
C19_Witness ==
    /\ re.fn = "research_all" /\ re.on_progress /\ re.pc = "returned"
    /\ Len(re.sub_queries) = MaxQueries
    /\ Len(re.progress) = MaxQueries
    /\ \E i, j \in 1..MaxQueries :
         /\ Get(re.results[i]).success /\ ~Get(re.results[j]).success

\* C20: never more than min(N, 5) searches are in flight; while fewer are
\* in flight and a sub-query waits, a worker can take it; research_all
\* returns only when every search has finished.
C20_BoundedFanOut ==
    re.fn = "research_all" =>
        LET N == Len(re.sub_queries) IN
        /\ Cardinality(InFlight(re.tasks)) <= Min(N, POOL_MAX_WORKERS)
        /\ (re.pc = "map" /\ Queued(re.tasks) # {}
              /\ Cardinality(InFlight(re.tasks)) < Min(N, POOL_MAX_WORKERS))
             => ENABLED WorkerTakes
        /\ re.pc = "returned" => (Len(re.tasks) = N /\ AllDone(re.tasks))

\* five searches of a list of more than five are in flight at once
C20_Witness ==
    /\ re.fn = "research_all"
    /\ Len(re.sub_queries) > POOL_MAX_WORKERS
    /\ Cardinality(InFlight(re.tasks)) = POOL_MAX_WORKERS
    /\ Queued(re.tasks) # {}

\* a synthesize call that returned
SynthesizeReturned ==
    call.fn = "synthesize" /\ IsSome(call.out) /\ Get(call.out).raised = ""

\* the positions of a list of sources that hold the first source of a URL
FirstOfUrl(all) ==
    { i \in 1..Len(all) : \A j \in 1..(i - 1) : all[j].url # all[i].url }

\* out lists the sources at the positions S of all, in the order of all
ListsPositions(out, all, S) ==
    /\ Len(out) = Cardinality(S)
    /\ \A i \in S : out[Cardinality({ j \in S : j <= i })] = all[i]

Contributing(results) == { i \in 1..Len(results) : ContributesText(results[i]) }

\* C22: a synthesize call in which at least two research results
\* contributed text returns a response with at least one section heading.
C22_SectionsWhenSeveralResults ==
    (SynthesizeReturned /\ Cardinality(Contributing(call.args[1])) >= 2) =>
        Get(Get(call.out).response).sections # <<>>

\* the section list returned is the one the model gave
C22_SectionsAreTheModels ==
    SynthesizeReturned => Get(Get(call.out).response).sections = call.args[2].sections

\* C23: a conversation whose stage is COMPLETE has a final response with a
\* non-empty text, in the working state and in the store.
C23_CompleteHasAnswer ==
    /\ \A t \in Threads :
          (IsSome(th[t].st) /\ Get(th[t].st).stage = "COMPLETE") =>
              /\ IsSome(Get(th[t].st).final_response)
              /\ Truthy(Get(Get(th[t].st).final_response).response_text)
    /\ \A i \in ConvIds :
          (IsSome(store[i]) /\ Get(store[i]).stage = StageValue("COMPLETE")) =>
              /\ IsSome(Get(store[i]).final_response)
              /\ Truthy(Get(Get(store[i]).final_response).response_text)

\* C23, for the engine alone: synthesize and summarize return a non-empty
\* text whenever they return
C23_EngineReturnsText ==
    (call.fn \in {"synthesize", "summarize"} /\ IsSome(call.out)
       /\ Get(call.out).raised = "")
      => Truthy(Get(Get(call.out).response).response_text)

\* the same, when the model's text was not empty
C23_AnswerIsTheModels ==
    (call.fn \in {"synthesize", "summarize"} /\ IsSome(call.out)
       /\ Get(call.out).raised = "")
      => Get(Get(call.out).response).response_text = call.args[2].response_text

\* the items of the sub-queries decompose returned
ReturnedItems ==
    LET sq == Get(call.out).sub_queries IN
    [i \in 1..Len(sq) |-> SubQueryItem(sq[i].query_text, sq[i].aspect)]

\* C24: for every list of items the generator returns, decompose returns
\* between 2 and 5 sub-queries: the items padded with the question under a
\* generic aspect up to 2, or the first 5 of them; it does not fail because
\* of the number of items.
C24_CountBetweenTwoAndFive ==
    (call.fn = "decompose" /\ IsSome(call.out) /\ call.args[2].json) =>
        LET items == call.args[2].sub_queries
            general == SubQueryItem(call.args[1], "General overview")
        IN /\ Get(call.out).raised = ""
           /\ Len(ReturnedItems) >= 2 /\ Len(ReturnedItems) <= 5
           /\ Len(items) \in 2..5 => ReturnedItems = items
           /\ Len(items) > 5 => ReturnedItems = SubSeq(items, 1, 5)
           /\ Len(items) < 2 =>
                 /\ Len(ReturnedItems) = 2
                 /\ SubSeq(ReturnedItems, 1, Len(items)) = items
                 /\ \A i \in (Len(items) + 1)..2 : ReturnedItems[i] = general

\* what decompose does return: the generator's items, when there are 2 to 5
C24_ReturnsTheItemsWhenInRange ==
    (call.fn = "decompose" /\ IsSome(call.out)) =>
        LET items == call.args[2].sub_queries IN
        IF call.args[2].json /\ Len(items) \in 2..5
        THEN Get(call.out).raised = "" /\ ReturnedItems = items
        ELSE Get(call.out).raised = "ValidationError"

\* the deletion tasks scheduled for a message among the calls evs
DeletionTasks(evs, chat, id) ==
    { j \in 1..Len(evs) : evs[j].op = "schedule" /\ evs[j].ok
                          /\ evs[j].chat = chat /\ evs[j].id = id
                          /\ evs[j].delay = AUTO_DELETE_DURATION }

\* the calls that scheduled anything for a message, whatever came of them
ScheduleCalls(evs, id) == { j \in 1..Len(evs) : evs[j].op = "schedule" /\ evs[j].id = id }

\* the messages sent among the calls evs
SentMessages(evs) == { i \in 1..Len(evs) : evs[i].op = "send" /\ evs[i].ok }

\* C25: with a scheduler configured and no call failing, every message an
\* invocation sent to the user (status, clarification question, answer,
\* citations) has exactly one deletion task, at 86400 seconds, bound to its
\* chat and message id.
C25_EverySentMessageExpires ==
    \A t \in Threads :
        LET evs == th[t].out IN
        (huey /\ FailCount(evs) = 0) =>
            \A i \in SentMessages(evs) :
                Cardinality(DeletionTasks(evs, evs[i].chat, evs[i].id)) = 1

\* the same for the messages sent through the StatusManager alone
C25_ManagerMessagesExpire ==
    (call.fn = "status_manager" /\ huey) =>
        LET evs == OpEvents(call.ops) IN
        \A i \in SentMessages(evs) :
            \/ i < Len(evs) /\ evs[i + 1] = ScheduleEv(TRUE, evs[i].chat, evs[i].id)
                 /\ Cardinality(DeletionTasks(evs, evs[i].chat, evs[i].id)) = 1
            \/ i < Len(evs) /\ evs[i + 1] = ScheduleEv(FALSE, evs[i].chat, evs[i].id)

\* C26: update_status, and replace_with_response when its edit succeeds,
\* schedule nothing and send nothing; the only scheduling call ever made
\* for a message is the one that follows its sending, so with a scheduler a
\* message keeps the single deletion task it got when it was sent.
C26_TimerSetOnce ==
    call.fn = "status_manager" =>
        LET evs == OpEvents(call.ops) IN
        /\ \A k \in 1..Len(call.ops) :
              LET op == call.ops[k] IN
              /\ op.name = "update_status" =>
                    \A j \in 1..Len(op.evs) : op.evs[j].op = "edit"
              /\ (op.name = "replace_with_response" /\ op.evs[1].ok) =>
                    op.evs = << EditEv(TRUE, 1, op.message_id, op.text, op.evs[1].parse_mode) >>
        /\ \A j \in 1..Len(evs) :
              evs[j].op = "schedule" =>
                 /\ j > 1 /\ evs[j - 1].op = "send" /\ evs[j - 1].ok
                 /\ evs[j - 1].id = evs[j].id /\ evs[j - 1].chat = evs[j].chat
        /\ \A i \in SentMessages(evs) :
              /\ Cardinality(ScheduleCalls(evs, evs[i].id)) <= 1
              /\ (huey /\ evs[i + 1].ok) =>
                    Cardinality(DeletionTasks(evs, evs[i].chat, evs[i].id)) = 1

\* a message was sent and scheduled, then updated and replaced in place
C26_Witness ==
    /\ call.fn = "status_manager" /\ huey /\ Len(call.ops) = MaxOps
    /\ call.ops[1].name = "send_initial_status" /\ ~call.ops[1].raised
    /\ call.ops[2].name = "update_status" /\ call.ops[2].message_id = 1
    /\ call.ops[2].evs[1].ok
    /\ call.ops[3].name = "replace_with_response" /\ call.ops[3].message_id = 1
    /\ call.ops[3].evs[1].ok
    /\ Cardinality(DeletionTasks(OpEvents(call.ops), 1, 1)) = 1

\* C27: when its edit fails, replace_with_response sends the same text as a
\* new message and, the message sent, makes one scheduling call for the new
\* message id; update_status makes no other call and does not raise.
C27_EditFailure ==
    call.fn = "status_manager" =>
        \A k \in 1..Len(call.ops) :
            LET op == call.ops[k]
                evs == op.evs
            IN (evs # <<>> /\ evs[1].op = "edit" /\ ~evs[1].ok) =>
                 /\ op.name = "update_status" => (Len(evs) = 1 /\ ~op.raised)
                 /\ op.name = "replace_with_response" =>
                       /\ Len(evs) >= 2
                       /\ evs[2].op = "send" /\ evs[2].text = op.text
                       /\ evs[2].chat = evs[1].chat
                       /\ evs[2].parse_mode = evs[1].parse_mode
                       /\ (evs[2].ok /\ huey) =>
                             /\ Len(evs) = 3
                             /\ evs[3].op = "schedule" /\ evs[3].id = evs[2].id
                             /\ evs[3].chat = evs[2].chat
                             /\ evs[3].delay = AUTO_DELETE_DURATION
                             /\ evs[2].id # op.message_id
                       /\ (evs[2].ok /\ ~huey) => Len(evs) = 2
                       /\ ~evs[2].ok => (Len(evs) = 2 /\ op.raised)

\* an update and a replacement both met a failed edit; the replacement was
\* sent as a new message with its deletion task
C27_Witness ==
    /\ call.fn = "status_manager" /\ huey
    /\ \E k, l \in 1..Len(call.ops) :
         /\ call.ops[k].name = "update_status" /\ ~call.ops[k].evs[1].ok
         /\ call.ops[l].name = "replace_with_response" /\ ~call.ops[l].evs[1].ok
         /\ Len(call.ops[l].evs) = 3 /\ call.ops[l].evs[3].ok

\* the texts an invocation handed to Telegram, in send_message or edit_message_text
TransportTexts(evs) ==
    { evs[i].text : i \in { j \in 1..Len(evs) : evs[j].op \in {"send", "edit"} } }

\* C28: no text handed to Telegram is longer than the 4096 characters one
\* message can carry; a longer final answer goes out as several messages.
C28_LongAnswerSplit ==
    \A t \in Threads :
        \A text \in TransportTexts(th[t].out) : TLen(text) <= TELEGRAM_MAX_LENGTH

\* what the code does instead: the whole answer is handed over in one call
C28_LongAnswerSentWhole ==
    \A t \in Threads :
        LET me == th[t] IN
        (me.pc \in {"fin_sources", "done"} /\ IsSome(me.fr)
            /\ TLen(Get(me.fr).response_text) > TELEGRAM_MAX_LENGTH) =>
            \E i \in 1..Len(me.out) :
                /\ me.out[i].op \in {"send", "edit"}
                /\ me.out[i].text = Get(me.fr).response_text

\* the calls of the store made before call k
Earlier(k) == 1..(k - 1)

\* the state the store was given for an id before call k, if it has not been
\* updated since
Persisted(k, id) ==
    { call.ops[j].arg : j \in { i \in Earlier(k) :
        /\ call.ops[i].name = "create_conversation" /\ call.ops[i].id = id
        /\ \A u \in (i + 1)..(k - 1) :
              ~(call.ops[u].name = "update_conversation" /\ call.ops[u].id = id) } }

EverCreated(k, id) ==
    \E i \in Earlier(k) : call.ops[i].name = "create_conversation" /\ call.ops[i].id = id

DocFields == DOMAIN ModelDump(ConversationState(1, 1, 1, 1, EmptyText))

\* call k is an update of a document the collection holds
UpdatesStored(k) ==
    /\ call.ops[k].name = "update_conversation"
    /\ IsSome(call.ops[k].before[call.ops[k].id])

\* C30: update_conversation sets the named fields of the document with the
\* given id to the given values and changes nothing else, in that document
\* or in any other, and creates no document; two updates of the same
\* document that name disjoint fields leave what they would have left in
\* the other order.
C30_FieldLevelUpdate ==
    call.fn = "mongo_store" =>
        \A k \in 1..Len(call.ops) :
            LET op == call.ops[k] IN
            op.name = "update_conversation" =>
                /\ \A i \in StoreIds \ {op.id} : op.after[i] = op.before[i]
                /\ ~UpdatesStored(k) => op.after = op.before
                /\ UpdatesStored(k) =>
                      /\ IsSome(op.after[op.id])
                      /\ DOMAIN Get(op.after[op.id]) = DocFields
                      /\ \A f \in DocFields :
                            Get(op.after[op.id])[f] =
                                IF f \in DOMAIN op.arg THEN op.arg[f]
                                ELSE Get(op.before[op.id])[f]
                /\ (/\ k > 1 /\ UpdatesStored(k) /\ UpdatesStored(k - 1)
                     /\ call.ops[k - 1].id = op.id
                     /\ DOMAIN call.ops[k - 1].arg \cap DOMAIN op.arg = {}) =>
                       op.after =
                           UpdateConversation(
                               UpdateConversation(call.ops[k - 1].before, op.id, op.arg),
                               op.id, call.ops[k - 1].arg)

\* a stored document was updated twice on disjoint fields, and a field
\* neither update named kept the value it was created with
C30_Witness ==
    /\ call.fn = "mongo_store" /\ Len(call.ops) = 3
    /\ call.ops[1].name = "create_conversation" /\ call.ops[1].arg.stage = "SYNTHESIZING"
    /\ UpdatesStored(2) /\ UpdatesStored(3)
    /\ call.ops[2].id = call.ops[1].id /\ call.ops[3].id = call.ops[1].id
    /\ DOMAIN call.ops[2].arg = {"error_message"}
    /\ DOMAIN call.ops[3].arg = {"status_message_id"}
    /\ Get(call.coll[call.ops[1].id]).stage = StageValue("SYNTHESIZING")
    /\ Get(call.coll[call.ops[1].id]).error_message = Some("boom")
    /\ Get(call.coll[call.ops[1].id]).status_message_id = 7

\* the URL a grounding chunk stands for once resolved; "" when the chunk has
\* no web part or no URL
ResolvedUrl(ch, probe) ==
    IF ch.web /\ IsSome(ch.uri) THEN ResolveRedirectUrl(Get(ch.uri), probe) ELSE ""

\* the chunks that are the first to carry their resolved URL
FirstSeen(chunks, probe) ==
    { i \in 1..Len(chunks) :
        /\ ResolvedUrl(chunks[i], probe) # ""
        /\ \A j \in 1..(i - 1) : ResolvedUrl(chunks[j], probe) # ResolvedUrl(chunks[i], probe) }

\* C31: the sources extracted from a response hold no URL twice and no
\* empty URL, and are the chunks that first carry their resolved URL, in
\* the order of the chunks.
C31_SourcesUniqueInOrder ==
    (call.fn = "_extract_sources" /\ IsSome(call.out)) =>
        LET sources == Get(call.out)
            chunks == IF call.args[1].has_metadata THEN call.args[1].chunks ELSE <<>>
            probe == call.args[2]
            firsts == FirstSeen(chunks, probe)
        IN /\ \A i, j \in 1..Len(sources) : sources[i].url = sources[j].url => i = j
           /\ \A i \in 1..Len(sources) : sources[i].url # ""
           /\ Len(sources) = Cardinality(firsts)
           /\ \A i \in 1..Len(sources) :
                 \E c \in firsts :
                     /\ Cardinality({ d \in firsts : d < c }) = i - 1
                     /\ sources[i].url = ResolvedUrl(chunks[c], probe)

\* a redirect URL resolved to a URL a later chunk carries itself: the later
\* chunk is left out, the resolved one comes first
C31_Witness ==
    /\ call.fn = "_extract_sources" /\ IsSome(call.out)
    /\ call.args[1].has_metadata /\ Len(call.args[1].chunks) = 3
    /\ call.args[1].chunks[1].uri = Some("https://vertexaisearch.example/grounding-api-redirect/r1")
    /\ call.args[1].chunks[2].uri = Some("https://b.example/2")
    /\ call.args[1].chunks[3].uri = Some("https://a.example/1")
    /\ Get(call.out) = << SourceInfo("Source", "https://a.example/1"),
                          SourceInfo("B", "https://b.example/2") >>

\* the HEAD probe of a URL did not yield a destination: it raised (timeout,
\* network error), answered with a status that is no redirect, or with a
\* redirect that names no Location
ProbeFailed(r) ==
    \/ r.kind = "error"
    \/ r.kind = "status" /\ r.code \notin RedirectStatusCodes
    \/ r.kind = "status" /\ ~IsSome(r.location)

\* the chunks of a response whose URL is put to the probe
RedirectChunks(response) ==
    IF ~response.has_metadata THEN {}
    ELSE { i \in 1..Len(response.chunks) :
             /\ response.chunks[i].web /\ IsSome(response.chunks[i].uri)
             /\ Get(response.chunks[i].uri) \in RedirectUrls }

C32_OneProbeOneHop ==
    (call.fn = "_extract_sources" /\ IsSome(call.out)) =>
        LET response == call.args[1]
            probe == call.args[2]
        IN /\ Len(call.requests) = Cardinality(RedirectChunks(response))
           /\ \A k \in 1..Len(call.requests) : call.requests[k] \in RedirectUrls
           /\ \A i \in RedirectChunks(response) :
                 LET r == probe[Get(response.chunks[i].uri)] IN
                 (~ProbeFailed(r) /\ Get(r.location) = SecondHopUrl) =>
                     \E k \in 1..Len(Get(call.out)) : Get(call.out)[k].url = SecondHopUrl

\* <a href="URL">TITLE</a>, as one piece of text
Hyperlink(url, title) == [c |-> "<a href=\"" \o url \o "\">" \o title \o "</a>", n |-> 1]
Separator == [c |-> " | ", n |-> 1]

\* C33: a source renders as <a href="URL">TITLE</a> with its URL and title
\* as they are, and a list of sources as those hyperlinks in list order with
\* " | " between neighbours; the empty list renders as the empty text.
C33_SourcesRenderAsHyperlinks ==
    /\ (call.fn = "to_html" /\ IsSome(call.out)) =>
          Get(call.out) = << Hyperlink(call.args[1].url, call.args[1].title) >>
    /\ (call.fn = "format_sources_html" /\ IsSome(call.out)) =>
          LET sources == call.args[1]
              html == Get(call.out)
          IN /\ sources = <<>> => html = EmptyText
             /\ sources # <<>> =>
                   /\ Len(html) = 2 * Len(sources) - 1
                   /\ \A i \in 1..Len(sources) :
                         html[2 * i - 1] = Hyperlink(sources[i].url, sources[i].title)
                   /\ \A i \in 1..(Len(sources) - 1) : html[2 * i] = Separator

\* three sources, one of them with HTML's special characters in its title
\* and URL, were rendered
C33_Witness ==
    /\ call.fn = "format_sources_html" /\ IsSome(call.out)
    /\ Len(call.args[1]) = 3
    /\ call.args[1][2] = SourceInfo("Q & A <b>", "https://b.example/?x=1&y=\"2\"")
    /\ call.args[1][1] # call.args[1][3]
    /\ TLen(Get(call.out)) > 0

\* no handle() invocation is running
BetweenInvocations == \A t \in Threads : Resting(th[t])

\* the invocation that recorded the pending entry e, while its record lasts
RecordedBy(e) == { t \in Threads : th[t].arr = e.slot /\ th[t].conv = e.conv }

\* C34: between invocations, the conversation named by a chat's pending
\* entry awaits clarification, its question was delivered to the chat, and
\* the invocation that recorded the entry made no search.
C34_PendingOnlyWhileAwaiting ==
    BetweenInvocations =>
        \A c \in Chats :
            IsSome(pending[c]) =>
                \A t \in RecordedBy(Get(pending[c])) :
                    LET me == th[t] IN
                    /\ Get(me.st).stage = "AWAITING_CLARIFICATION"
                    /\ Delivered(me, ClarificationMessage(Get(pending[c]).cr))
                    /\ SearchCalls(me) = 0 /\ me.nSynth = 0

\* the same, for the invocations in which no transport call failed
C34_PendingWhenQuestionSent ==
    BetweenInvocations =>
        \A c \in Chats :
            IsSome(pending[c]) =>
                \A t \in RecordedBy(Get(pending[c])) :
                    LET me == th[t] IN
                    FailCount(me.out) = 0 =>
                        /\ Get(me.st).stage = "AWAITING_CLARIFICATION"
                        /\ Delivered(me, ClarificationMessage(Get(pending[c]).cr))
                        /\ SearchCalls(me) = 0 /\ me.nSynth = 0

\* the notifications an invocation delivered: messages sent, or edited into
\* the status message, that are not a status text
Notified(me) ==
    { i \in 1..Len(me.out) :
        /\ me.out[i].op \in {"send", "edit"} /\ me.out[i].ok
        /\ me.out[i].text \notin StatusTexts }

\* C35: an invocation that took a message as a clarification reply and
\* returned without raising has delivered a message to the chat: a new
\* question, an answer or an error notice.
C35_ReplyIsAnswered ==
    \A t \in Threads :
        LET me == th[t] IN
        (me.route = "clar" /\ me.pc = "done" /\ me.slot # 0 /\ me.exc = "") =>
            Notified(me) # {}

\* the same, for the replies whose conversation was loaded from the store
\* and whose invocation saw no call fail
C35_LoadedReplyIsAnswered ==
    \A t \in Threads :
        LET me == th[t] IN
        (me.route = "clar" /\ me.pc = "done" /\ me.slot # 0
            /\ IsSome(me.st) /\ me.exc = "" /\ FailCount(me.out) = 0) =>
            Notified(me) # {}

\* the conversations whose stored stage is AWAITING_CLARIFICATION
StoredAwaiting ==
    { i \in ConvIds : IsSome(store[i])
                       /\ Get(store[i]).stage = StageValue("AWAITING_CLARIFICATION") }

\* C36: between invocations, every conversation stored as awaiting
\* clarification is the one its chat's pending entry names.
C36_AwaitingIsResumable ==
    BetweenInvocations =>
        \A i \in StoredAwaiting :
            LET chat == Get(store[i]).chat_id IN
            IsSome(pending[chat]) /\ Get(pending[chat]).conv = i

\* the same, while no call has failed and no invocation has raised
C36_AwaitingIsResumableWithoutFailure ==
    (BetweenInvocations /\ faults = 0 /\ \A t \in Threads : th[t].exc = "") =>
        \A i \in StoredAwaiting :
            LET chat == Get(store[i]).chat_id IN
            IsSome(pending[chat]) /\ Get(pending[chat]).conv = i

\* the backend calls of an invocation are within their bounds, and a
\* synthesis call was made only for a search that succeeded
CallsBounded ==
    \A t \in Threads :
        LET me == th[t] IN
        /\ me.nResolver <= 1
        /\ SearchCalls(me) <= DEFAULT_MAX_RETRIES + 1
        /\ me.nSynth <= 1
        /\ me.nSynth > 0 =>
              /\ SearchCalls(me) > 0
              /\ IsSome(me.rr) /\ Get(me.rr).success

\* the backend calls of an invocation come in the order resolver, search,
\* synthesis
CallsInOrder ==
    \A t \in Threads :
        LET a == th[t]
            b == th'[t]
        IN a.arr = b.arr =>
             /\ b.nResolver > a.nResolver => (SearchCalls(a) = 0 /\ a.nSynth = 0)
             /\ SearchCalls(b) > SearchCalls(a) => (a.nResolver = 1 /\ a.nSynth = 0)
             /\ b.nSynth > a.nSynth => ~LoopRunning(Get(a.loop))

\* C37: one invocation makes at most one resolver call, at most
\* max_retries + 1 = 2 search calls and at most one synthesis call, in that
\* order, and makes the synthesis call only after a search call succeeded.
C37_SequentialAndBounded == []CallsBounded /\ [][CallsInOrder]_vars

\* an invocation made one resolver call, two search calls of which the
\* second succeeded, and one synthesis call
C37_Witness ==
    \E t \in Threads :
        /\ th[t].nResolver = 1 /\ SearchCalls(th[t]) = 2 /\ th[t].nSynth = 1
        /\ Get(th[t].rr).success

\* the only calls of the invocation that failed are calls of the scheduler
OnlySchedulerFailed(me) ==
    \A i \in 1..Len(me.out) : ~me.out[i].ok => me.out[i].op = "schedule"

\* the status messages the invocation posted
PostedStatus(me) ==
    { i \in 1..Len(me.out) :
        /\ me.out[i].op = "send" /\ me.out[i].ok
        /\ me.out[i].text = StageMessage("THINKING") }

\* the deliveries of a text that is not a status text
Deliveries(me, text) == { i \in Carried(me, text) : me.out[i].ok }

\* no notification was delivered to the chat twice
NoTextTwice(me) ==
    \A i \in Notified(me) : Cardinality(Deliveries(me, me.out[i].text)) = 1

\* C38: when nothing but the scheduler fails, the invocation goes on with
\* the status message it posted as its status message, and delivers no
\* notification twice.
C38_SchedulerFailureHarmless ==
    \A t \in Threads :
        LET me == th[t] IN
        (OnlySchedulerFailed(me) /\ me.pc \notin {"idle", "check", "read", "status",
                                                   "clar_del", "clar_load", "clar_persist",
                                                   "clar_status"}) =>
            /\ \A i \in PostedStatus(me) : me.sid = me.out[i].id
            /\ NoTextTwice(me)

\* the same, for the invocations in which no call failed at all
C38_HarmlessWithoutFailure ==
    \A t \in Threads :
        LET me == th[t] IN
        (FailCount(me.out) = 0 /\ me.pc \notin {"idle", "check", "read", "status",
                                                 "clar_del", "clar_load", "clar_persist",
                                                 "clar_status"}) =>
            /\ \A i \in PostedStatus(me) : me.sid = me.out[i].id
            /\ NoTextTwice(me)

\* the conversations whose stored stage is COMPLETE
StoredComplete ==
    { i \in ConvIds : IsSome(store[i]) /\ Get(store[i]).stage = StageValue("COMPLETE") }

\* C39: a conversation stored as COMPLETE has a final response and a
\* completion time in its stored document.
C39_CompleteIsFilledIn ==
    \A i \in StoredComplete :
        /\ IsSome(Get(store[i]).final_response)
        /\ IsSome(Get(store[i]).completed_at)

\* the update that writes COMPLETE after a synthesis call that succeeded
\* carries a final response and a completion time
C39_CompleteIsFilledInAfterSynthesis ==
    \A t \in Threads :
        LET me == th[t] IN
        ~me.synFailed =>
            \A k \in 1..Len(me.db) :
                (/\ me.db[k].op = "update" /\ "stage" \in DOMAIN me.db[k].fields
                 /\ me.db[k].fields.stage = StageValue("COMPLETE")) =>
                    /\ "final_response" \in DOMAIN me.db[k].fields
                    /\ IsSome(me.db[k].fields.final_response)
                    /\ "completed_at" \in DOMAIN me.db[k].fields
                    /\ IsSome(me.db[k].fields.completed_at)

\* C40: an invocation whose resolver answered needs_clarification = true
\* with no question or an empty one has not asked: it recorded no pending
\* entry, it did not put its conversation in stage AWAITING_CLARIFICATION
\* (a conversation resumed by a reply leaves that stage when research
\* begins), and it went on to research.
C40_NoQuestionNoSuspension ==
    \A t \in Threads :
        LET me == th[t] IN
        me.unasked =>
            /\ ~me.asked /\ me.cr = None
            /\ (me.route = "new" \/ me.pc # "rs_stage") =>
                  Get(me.st).stage # "AWAITING_CLARIFICATION"
            /\ ~(IsSome(pending[me.chat]) /\ Get(pending[me.chat]).slot = me.arr)
            /\ me.pc \notin {"resolver", "ask_persist", "ask_notify"}
            /\ me.pc # "rs_stage" => IsSome(me.loop)

\* such an invocation made a search call and returned
C40_Witness ==
    \E t \in Threads :
        /\ th[t].unasked /\ SearchCalls(th[t]) > 0 /\ th[t].pc = "done"
====
